---- MODULE Spec2Model ----
(***************************************************************************)
(* Key registry of the Inkan key management module (src/key_storage).     *)
(*                                                                         *)
(* KeyStorage owns a HashMap<Uuid, KeyPair> behind one tokio Mutex and a   *)
(* JSON document on disk.  Every public method is modelled by one action   *)
(* per locked section: a method that takes the lock once is one step, and  *)
(* store_key / update_key, which release the lock and then call            *)
(* save_to_disk, continue in the steps of save_to_disk.                    *)
(*                                                                         *)
(* Option<T> is modelled as a sequence: <<>> is None, <<v>> is Some(v).    *)
(***************************************************************************)
EXTENDS Integers, Sequences, FiniteSets, TLC

\* Latest instant of the model clock (Utc::now() ranges over 0..MaxTime).
MaxTime == 1

Times == 0..MaxTime

\* Uuids of the key pairs the callers talk about.
Ids == {"k1", "k2"}

\* Worker tasks that run requests.
Procs == {"p1", "p2"}

None == <<>>
Some(v) == <<v>>
Opt(S) == {None} \cup {Some(v) : v \in S}

VARIABLES
    keys,              \* KeyStorage.keys: the map Uuid -> KeyPair
    disk,              \* the file at storage_path
    lock,              \* holder of the Mutex around keys: None or Some(p)
    now,               \* the clock read by Utc::now()
    pc,                \* per worker: "idle", "save", "write", "touch", "info", "done" or "exited"
    call,              \* per worker: the method in progress and its key id
    updated_key_pair,  \* per worker: update_key's clone of the updated record
    content,           \* per worker: save_to_disk's serialized map
    ret,               \* per worker: the value the method returned
    revoked            \* history: ids whose last store/update/revoke was an Ok revoke

vars == <<keys, disk, lock, now, pc, call, updated_key_pair, content, ret, revoked>>

----------------------------------------------------------------------------
\* Results (Result<_, KeyManagementError>).
Ok(v) == [kind |-> "Ok", value |-> v]
\* The unit value () of Rust.
Unit == [unit |-> TRUE]
KeyNotFound(id) == [kind |-> "KeyNotFound", id |-> id]
KeyExpired(id) == [kind |-> "KeyExpired", id |-> id]
KeyRevoked(id) == [kind |-> "KeyRevoked", id |-> id]
StorageError == [kind |-> "StorageError"]

InvalidKeyFormat(message) == [kind |-> "InvalidKeyFormat", message |-> message]
InvalidRequest(message) == [kind |-> "InvalidRequest", message |-> message]
PrivateKeyDecryptionFailed(message) ==
    [kind |-> "PrivateKeyDecryptionFailed", message |-> message]

\* The abort of the thread by unwrap() on an Err.
Panic == [kind |-> "panic"]

----------------------------------------------------------------------------
\* Key material.  Byte strings are records that carry their length len and
\* what they hold; texts are base64 texts [base64 |-> bytes] or other texts.
\* The primitives are ideal: a ciphertext opens under its own key only, a
\* signature verifies under its own key and message only.

\* base64 STANDARD.encode, and whether STANDARD.decode accepts a text.
encode(bytes) == [base64 |-> bytes]
IsBase64(text) == "base64" \in DOMAIN text

\* SigningKey::to_keypair_bytes: the 32 secret bytes, then the 32 public ones.
to_keypair_bytes(signing_key) ==
    [len |-> 64, secret |-> signing_key, public |-> signing_key]

\* VerifyingKey::to_bytes of the verifying key of signing_key.
verifying_key_bytes(signing_key) == [len |-> 32, public |-> signing_key]

\* pbkdf2::<Hmac<Sha256>>(password, salt, 100_000): the derived AES key.
pbkdf2(password, salt_bytes) == [password |-> password, salt |-> salt_bytes]

\* encrypt_private_key, lines 107-117: the nonce followed by the AES-256-GCM
\* ciphertext and tag of private_key under key.
seal(key, nonce, private_key) ==
    [len    |-> 12 + private_key.len + 16,
     nonce  |-> nonce,
     sealed |-> [key |-> key, nonce |-> nonce, plaintext |-> private_key],
     intact |-> TRUE]

\* encrypt_private_key, given the salt and the nonce it draws at random:
\* the pair (encrypted_b64, Some(salt_b64)).
encrypt_private_key(private_key, password, salt, nonce) ==
    <<encode(seal(pbkdf2(password, salt), nonce, private_key)), Some(encode(salt))>>

\* A base64 text one bit away from encrypted_b64, of the same length: the
\* nonce, the ciphertext or the tag was changed.
tampered(encrypted_b64) == encode([encrypted_b64.base64 EXCEPT !.intact = FALSE])

\* cipher.decrypt(nonce, encrypted_content) for the first 12 bytes and the
\* rest of encrypted_data: Some(plaintext), or None when the tag does not
\* authenticate the data under key.
aes_gcm_decrypt(key, encrypted_data) ==
    IF /\ "sealed" \in DOMAIN encrypted_data
       /\ encrypted_data.intact
       /\ encrypted_data.sealed.nonce = encrypted_data.nonce
       /\ encrypted_data.sealed.key = key
    THEN Some(encrypted_data.sealed.plaintext)
    ELSE None

\* decrypt_private_key that tells a corrupted envelope from a wrong password.
decrypt_private_key_telling_cause(encrypted_private_key, password, salt) ==
    IF ~IsBase64(encrypted_private_key)
    THEN InvalidKeyFormat("Invalid encrypted key encoding")
    ELSE LET encrypted_data == encrypted_private_key.base64 IN
    IF encrypted_data.len < 12 THEN InvalidKeyFormat("Encrypted data too short")
    ELSE IF salt = None THEN InvalidRequest("Salt required for encrypted keys")
    ELSE IF ~IsBase64(salt[1]) THEN InvalidKeyFormat("Invalid salt encoding")
    ELSE LET key == pbkdf2(password, salt[1].base64)
             decrypted_data == aes_gcm_decrypt(key, encrypted_data)
         IN IF decrypted_data # None THEN Ok(decrypted_data[1])
            ELSE IF "intact" \in DOMAIN encrypted_data /\ ~encrypted_data.intact
            THEN PrivateKeyDecryptionFailed("Corrupted data")
            ELSE PrivateKeyDecryptionFailed("Invalid password")

\* decrypt_private_key that hands out the plaintext whatever the password.
decrypt_private_key_any_password(encrypted_private_key, password, salt) ==
    IF ~IsBase64(encrypted_private_key)
    THEN InvalidKeyFormat("Invalid encrypted key encoding")
    ELSE LET encrypted_data == encrypted_private_key.base64 IN
    IF encrypted_data.len < 12 THEN InvalidKeyFormat("Encrypted data too short")
    ELSE IF salt = None THEN InvalidRequest("Salt required for encrypted keys")
    ELSE IF ~IsBase64(salt[1]) THEN InvalidKeyFormat("Invalid salt encoding")
    ELSE IF "sealed" \in DOMAIN encrypted_data /\ encrypted_data.intact
         THEN Ok(encrypted_data.sealed.plaintext)
         ELSE PrivateKeyDecryptionFailed("Invalid password or corrupted data")

\* decrypt_private_key
decrypt_private_key(encrypted_private_key, password, salt) ==
    IF ~IsBase64(encrypted_private_key)
    THEN InvalidKeyFormat("Invalid encrypted key encoding")
    ELSE LET encrypted_data == encrypted_private_key.base64 IN
    IF encrypted_data.len < 12 THEN InvalidKeyFormat("Encrypted data too short")
    ELSE IF salt = None THEN InvalidRequest("Salt required for encrypted keys")
    ELSE IF ~IsBase64(salt[1]) THEN InvalidKeyFormat("Invalid salt encoding")
    ELSE LET key == pbkdf2(password, salt[1].base64)
             decrypted_data == aes_gcm_decrypt(key, encrypted_data)
         IN IF decrypted_data = None
            THEN PrivateKeyDecryptionFailed("Invalid password or corrupted data")
            ELSE Ok(decrypted_data[1])

\* Texts that name a document: chars is the length of the text, hex is
\* Some(bytes) when the text is the hexadecimal of bytes, text names it.
sha256(text) == [len |-> 32, sha256 |-> text]
hex_encode(bytes) == [chars |-> 2 * bytes.len, hex |-> Some(bytes), text |-> "hex"]

\* create_document_hash
create_document_hash(document) == hex_encode(sha256(document))

\* The same code taking a missing document_hash for the empty document.
document_hash_bytes_of_nothing(document_hash) ==
    LET hash == IF document_hash = None
                THEN [chars |-> 0, hex |-> None, text |-> ""]
                ELSE document_hash[1]
        hex_text == IF hash.chars = 64 THEN hash ELSE hex_encode(sha256(hash))
    IN IF hex_text.hex = None
       THEN InvalidRequest("Invalid document hash format")
       ELSE Ok(hex_text.hex[1])

\* sign_document, lines 37-55 (and the same code in verify_signature, lines
\* 92-110): the bytes that are signed for a request's document_hash.
document_hash_bytes(document_hash) ==
    IF document_hash = None
    THEN InvalidRequest("Document hash or content must be provided")
    ELSE LET hash == document_hash[1]
             hex_text == IF hash.chars = 64 THEN hash ELSE hex_encode(sha256(hash))
         IN IF hex_text.hex = None
            THEN InvalidRequest("Invalid document hash format")
            ELSE Ok(hex_text.hex[1])

\* SigningKey::from_keypair_bytes(&bytes.try_into().unwrap()), the error
\* mapped to InvalidKeyFormat(message).
from_keypair_bytes(bytes, message) ==
    IF bytes.len # 64 THEN Panic
    ELSE IF "secret" \in DOMAIN bytes /\ bytes.secret = bytes.public
    THEN Ok(bytes.secret)
    ELSE InvalidKeyFormat(message)

\* Signer::sign: the 64 bytes of the Ed25519 signature of message.
ed25519_sign(signing_key, message) ==
    [len |-> 64, signer |-> signing_key, message |-> message]

\* Verifier::verify(..).is_ok()
ed25519_verify(public_key_bytes, message, signature_bytes) ==
    /\ "signer" \in DOMAIN signature_bytes
    /\ signature_bytes.signer = public_key_bytes.public
    /\ signature_bytes.message = message

\* sign_document that signs the digest of the hexadecimal text.
sign_document_signing_hex_text(request, private_key_b64, salt_b64) ==
    IF ~IsBase64(private_key_b64) THEN InvalidKeyFormat("Invalid private key encoding")
    ELSE
    LET private_key_bytes == private_key_b64.base64
        signing_key ==
            IF private_key_bytes.len > 64
            THEN IF request.password # None
                 THEN LET decrypted_bytes ==
                             decrypt_private_key(private_key_b64, request.password[1], salt_b64)
                      IN IF decrypted_bytes.kind # "Ok" THEN decrypted_bytes
                         ELSE from_keypair_bytes(decrypted_bytes.value,
                                                 "Invalid decrypted private key format")
                 ELSE InvalidRequest("Password required for encrypted private key")
            ELSE from_keypair_bytes(private_key_bytes, "Invalid private key format")
    IN IF signing_key.kind # "Ok" THEN signing_key
       ELSE IF request.document_hash = None
       THEN InvalidRequest("Document hash or content must be provided")
       ELSE Ok(encode(ed25519_sign(signing_key.value, sha256(request.document_hash[1]))))

\* sign_document
sign_document(request, private_key_b64, salt_b64) ==
    IF ~IsBase64(private_key_b64) THEN InvalidKeyFormat("Invalid private key encoding")
    ELSE
    LET private_key_bytes == private_key_b64.base64
        signing_key ==
            IF private_key_bytes.len > 64
            THEN IF request.password # None
                 THEN LET decrypted_bytes ==
                             decrypt_private_key(private_key_b64, request.password[1], salt_b64)
                      IN IF decrypted_bytes.kind # "Ok" THEN decrypted_bytes
                         ELSE from_keypair_bytes(decrypted_bytes.value,
                                                 "Invalid decrypted private key format")
                 ELSE InvalidRequest("Password required for encrypted private key")
            ELSE from_keypair_bytes(private_key_bytes, "Invalid private key format")
    IN IF signing_key.kind # "Ok" THEN signing_key
       ELSE LET hash_bytes == document_hash_bytes(request.document_hash)
            IN IF hash_bytes.kind # "Ok" THEN hash_bytes
               ELSE Ok(encode(ed25519_sign(signing_key.value, hash_bytes.value)))

\* sign_document_content
sign_document_content(request, private_key_b64, salt_b64, document_content) ==
    sign_document([request EXCEPT !.document_hash = Some(create_document_hash(document_content)),
                                  !.document_content = None],
                  private_key_b64, salt_b64)

\* verify_signature
verify_signature(request) ==
    IF ~IsBase64(request.public_key) THEN InvalidKeyFormat("Invalid public key encoding")
    ELSE LET public_key_bytes == request.public_key.base64 IN
    IF public_key_bytes.len # 32 THEN InvalidKeyFormat("Invalid public key length")
    ELSE IF "public" \notin DOMAIN public_key_bytes
    THEN InvalidKeyFormat("Invalid public key format")
    ELSE IF ~IsBase64(request.signature) THEN InvalidKeyFormat("Invalid signature encoding")
    ELSE LET signature_bytes == request.signature.base64 IN
    IF signature_bytes.len # 64 THEN InvalidKeyFormat("Invalid signature length")
    ELSE LET hash_bytes == document_hash_bytes(request.document_hash)
         IN IF hash_bytes.kind # "Ok" THEN hash_bytes
            ELSE Ok(ed25519_verify(public_key_bytes, hash_bytes.value, signature_bytes))

----------------------------------------------------------------------------
\* The passwords of the callers.
Passwords == {"pw", "guess"}

\* Requests the generator is given, and the record it builds from one at
\* time t, the random draws of the call (Uuid, signing key, salt, nonce)
\* being named by id.
GenerateKeyRequests ==
    [name : {"n0"}, description : {None}, password : Opt(Passwords),
     expires_at : Opt(Times), tags : {<<>>}, key_strength : {None}]

\* generate_key_pair that gives every record the key_type Ed25519.
generate_key_pair_plain_type(id, request, t) ==
    LET signing_key == id
        private_key_bytes == to_keypair_bytes(signing_key)
        public_key_bytes == verifying_key_bytes(signing_key)
        encrypted ==
            IF request.password # None
            THEN encrypt_private_key(private_key_bytes, request.password[1],
                                     [len |-> 32, salt |-> id], [len |-> 12, nonce |-> id])
            ELSE <<encode(private_key_bytes), None>>
    IN [id           |-> id,
        name         |-> request.name,
        description  |-> request.description,
        public_key   |-> encode(public_key_bytes),
        private_key  |-> encrypted[1],
        salt         |-> encrypted[2],
        created_at   |-> t,
        last_used    |-> None,
        expires_at   |-> request.expires_at,
        is_active    |-> TRUE,
        tags         |-> request.tags,
        key_type     |-> "Ed25519",
        key_strength |-> IF request.key_strength # None THEN request.key_strength[1]
                         ELSE "Standard"]

generate_key_pair(id, request, t) ==
    LET signing_key == id
        private_key_bytes == to_keypair_bytes(signing_key)
        public_key_bytes == verifying_key_bytes(signing_key)
        encrypted ==
            IF request.password # None
            THEN encrypt_private_key(private_key_bytes, request.password[1],
                                     [len |-> 32, salt |-> id], [len |-> 12, nonce |-> id])
            ELSE <<encode(private_key_bytes), None>>
    IN [id           |-> id,
        name         |-> request.name,
        description  |-> request.description,
        public_key   |-> encode(public_key_bytes),
        private_key  |-> encrypted[1],
        salt         |-> encrypted[2],
        created_at   |-> t,
        last_used    |-> None,
        expires_at   |-> request.expires_at,
        is_active    |-> TRUE,
        tags         |-> request.tags,
        key_type     |-> IF request.password # None THEN "Ed25519Encrypted" ELSE "Ed25519",
        key_strength |-> IF request.key_strength # None THEN request.key_strength[1]
                         ELSE "Standard"]

\* The requests without a password.
UnprotectedRequests == {r \in GenerateKeyRequests : r.password = None}

\* The patches of update_key.
UpdateKeyRequests ==
    [name        : Opt({"n1"}),
     description : Opt({"d1"}),
     tags        : Opt({<<"t1">>}),
     expires_at  : Opt(Times),
     is_active   : Opt(BOOLEAN)]

\* The patches that touch the lifecycle fields only.
LifecycleUpdates ==
    {u \in UpdateKeyRequests : u.name = None /\ u.description = None /\ u.tags = None}

\* The patches of one field, name or tags: two of them are on disjoint fields.
SingleFieldUpdates ==
    {u \in UpdateKeyRequests :
        /\ u.description = None /\ u.expires_at = None /\ u.is_active = None
        /\ (u.name = None) # (u.tags = None)}

\* The patches of every combination of present and absent fields, one value
\* for each field.
MetadataUpdates ==
    {u \in UpdateKeyRequests :
        u.expires_at \in Opt({MaxTime}) /\ u.is_active \in Opt({FALSE})}

\* The patch that renames a record.
Rename ==
    [name |-> Some("n1"), description |-> None, tags |-> None,
     expires_at |-> None, is_active |-> None]

\* The reasons a caller gives for a revocation (RevokeKeyRequest.reason).
RevokeReasons == Opt({"compromised", "retired"})

\* The requests for keys without a password that do not expire.
PlainRequests == {r \in UnprotectedRequests : r.expires_at = None}

\* The orders in which a HashMap iterates over the ids S: any.
Orders(S) ==
    {order \in [1..Cardinality(S) -> S] :
        \A i, j \in 1..Cardinality(S) : (i # j) => (order[i] # order[j])}

\* HashMap::insert
insert(m, id, kp) ==
    [i \in (DOMAIN m) \cup {id} |-> IF i = id THEN kp ELSE m[i]]

NoCall == [op |-> "none"]
EmptyMap == [i \in {} |-> None]

----------------------------------------------------------------------------
\* The file at storage_path: missing, or holding a text.  A text is blank
\* (nothing was written after the file was opened), the beginning of a JSON
\* text, or the JSON text of a value.
NoFile == [file |-> "missing"]
BlankText == [file |-> "blank"]
PartialText == [file |-> "partial"]
JsonText(value) == [file |-> "json", value |-> value]

\* serde_json values.
JNull == [json |-> "null"]
JString(s) == [json |-> "string", string |-> s]
JBool(b) == [json |-> "bool", bool |-> b]
JArray(a) == [json |-> "array", array |-> a]

\* Serialize / Deserialize for Option<T> with the conversions of T.
serialize_option(opt, ser(_)) == IF opt = None THEN JNull ELSE ser(opt[1])
deserialize_option(value, de(_)) == IF value = JNull THEN None ELSE Some(de(value))

\* chrono's serde for DateTime<Utc>: an RFC 3339 string and its parse.
serialize_datetime(t) == JString([rfc3339 |-> t])
deserialize_datetime(value) == value.string.rfc3339

\* Deserialize for KeyType and KeyStrength: the name of a variant, any other
\* name being read as the #[serde(other)] variant.
deserialize_enum(value, variants) ==
    IF value.string \in variants THEN value.string ELSE "Unknown"

\* A serializer for KeyPair that leaves the salt out, null in its place.
serialize_key_pair_without_salt(key_pair) ==
    [id           |-> JString(key_pair.id),
     name         |-> JString(key_pair.name),
     description  |-> serialize_option(key_pair.description, JString),
     public_key   |-> JString(key_pair.public_key),
     private_key  |-> JString(key_pair.private_key),
     salt         |-> JNull,
     created_at   |-> serialize_datetime(key_pair.created_at),
     last_used    |-> serialize_option(key_pair.last_used, serialize_datetime),
     expires_at   |-> serialize_option(key_pair.expires_at, serialize_datetime),
     is_active    |-> JBool(key_pair.is_active),
     tags         |-> JArray([i \in 1..Len(key_pair.tags) |-> JString(key_pair.tags[i])]),
     key_type     |-> JString(key_pair.key_type),
     key_strength |-> JString(key_pair.key_strength)]

\* #[derive(Serialize)] for KeyPair: the JSON object of a record.
serialize_key_pair(key_pair) ==
    [id           |-> JString(key_pair.id),
     name         |-> JString(key_pair.name),
     description  |-> serialize_option(key_pair.description, JString),
     public_key   |-> JString(key_pair.public_key),
     private_key  |-> JString(key_pair.private_key),
     salt         |-> serialize_option(key_pair.salt, JString),
     created_at   |-> serialize_datetime(key_pair.created_at),
     last_used    |-> serialize_option(key_pair.last_used, serialize_datetime),
     expires_at   |-> serialize_option(key_pair.expires_at, serialize_datetime),
     is_active    |-> JBool(key_pair.is_active),
     tags         |-> JArray([i \in 1..Len(key_pair.tags) |-> JString(key_pair.tags[i])]),
     key_type     |-> JString(key_pair.key_type),
     key_strength |-> JString(key_pair.key_strength)]

\* #[derive(Deserialize)] for KeyPair: the record of a JSON object.
deserialize_key_pair(object) ==
    [id           |-> object.id.string,
     name         |-> object.name.string,
     description  |-> deserialize_option(object.description, LAMBDA v : v.string),
     public_key   |-> object.public_key.string,
     private_key  |-> object.private_key.string,
     salt         |-> deserialize_option(object.salt, LAMBDA v : v.string),
     created_at   |-> deserialize_datetime(object.created_at),
     last_used    |-> deserialize_option(object.last_used, deserialize_datetime),
     expires_at   |-> deserialize_option(object.expires_at, deserialize_datetime),
     is_active    |-> object.is_active.bool,
     tags         |-> [i \in 1..Len(object.tags.array) |-> object.tags.array[i].string],
     key_type     |-> deserialize_enum(object.key_type, {"Ed25519", "Ed25519Encrypted"}),
     key_strength |-> deserialize_enum(object.key_strength, {"Standard", "High", "Ultra"})]

\* save_to_disk, lines 274-277: the text of the values of m, the map
\* iterating in the given order.
to_string_pretty(m, order) ==
    JsonText(JArray([i \in 1..Len(order) |-> serialize_key_pair(m[order[i]])]))

\* serde_json::from_str::<Vec<KeyPair>> of a JSON text written by save_to_disk.
from_str(text) ==
    [i \in 1..Len(text.value.array) |-> deserialize_key_pair(text.value.array[i])]

\* load_from_disk, lines 264-266: insert the records one after the other.
RECURSIVE insert_all(_, _)
insert_all(m, key_pairs) ==
    IF key_pairs = <<>> THEN m
    ELSE insert_all(insert(m, Head(key_pairs).id, Head(key_pairs)), Tail(key_pairs))

\* load_from_disk that empties the map before it inserts the records of the
\* file.
load_from_disk_result_replacing_map(m, file) ==
    IF file = NoFile THEN [result |-> Ok(Unit), keys |-> m]
    ELSE IF file = BlankText THEN [result |-> Ok(Unit), keys |-> m]
    ELSE IF file = PartialText THEN [result |-> StorageError, keys |-> m]
    ELSE [result |-> Ok(Unit), keys |-> insert_all(EmptyMap, from_str(file))]

\* load_from_disk: the result, and the map it leaves, for the map m and the
\* file found at storage_path.
load_from_disk_result(m, file) ==
    IF file = NoFile THEN [result |-> Ok(Unit), keys |-> m]
    ELSE IF file = BlankText THEN [result |-> Ok(Unit), keys |-> m]
    ELSE IF file = PartialText THEN [result |-> StorageError, keys |-> m]
    ELSE [result |-> Ok(Unit), keys |-> insert_all(m, from_str(file))]

\* The records a fresh registry holds once it has loaded the file.
Records(file) == load_from_disk_result(EmptyMap, file).keys

LockFree == lock = None

\* A worker that starts method op on key id, runs its locked section and
\* returns r without saving.
Finish(p, op, id, r) ==
    /\ pc' = [pc EXCEPT ![p] = "done"]
    /\ call' = [call EXCEPT ![p] = [op |-> op, id |-> id]]
    /\ ret' = [ret EXCEPT ![p] = Some(r)]

----------------------------------------------------------------------------
Init ==
    /\ keys = EmptyMap
    /\ disk = NoFile
    /\ lock = None
    /\ now = 0
    /\ pc = [p \in Procs |-> "idle"]
    /\ call = [p \in Procs |-> NoCall]
    /\ updated_key_pair = [p \in Procs |-> None]
    /\ content = [p \in Procs |-> None]
    /\ ret = [p \in Procs |-> None]
    /\ revoked = {}

\* get_key without the expiry check.
get_key_result_no_expiry(m, id, t) ==
    IF id \notin DOMAIN m THEN KeyNotFound(id)
    ELSE IF ~m[id].is_active THEN KeyRevoked(id)
    ELSE Ok(m[id])

\* get_key with the two lifecycle checks in the other order.
get_key_result_active_first(m, id, t) ==
    IF id \notin DOMAIN m THEN KeyNotFound(id)
    ELSE LET key_pair == m[id] IN
         IF ~key_pair.is_active THEN KeyRevoked(id)
         ELSE IF key_pair.expires_at # None /\ t > key_pair.expires_at[1]
         THEN KeyExpired(id)
         ELSE Ok(key_pair)

\* get_key: the value returned for id when the map is m and the clock reads t.
get_key_result(m, id, t) ==
    IF id \notin DOMAIN m THEN KeyNotFound(id)
    ELSE LET key_pair == m[id] IN
         IF key_pair.expires_at # None /\ t > key_pair.expires_at[1]
         THEN KeyExpired(id)
         ELSE IF ~key_pair.is_active THEN KeyRevoked(id)
         ELSE Ok(key_pair)

get_key(p, id) ==
    /\ pc[p] = "idle"
    /\ LockFree
    /\ Finish(p, "get", id, get_key_result(keys, id, now))
    /\ UNCHANGED <<keys, disk, lock, now, updated_key_pair, content, revoked>>

\* store_key that still holds the lock when it goes on to save.
store_key_holding_lock(p, key_pair) ==
    /\ pc[p] = "idle"
    /\ LockFree
    /\ keys' = insert(keys, key_pair.id, key_pair)
    /\ lock' = Some(p)
    /\ pc' = [pc EXCEPT ![p] = "save"]
    /\ call' = [call EXCEPT ![p] = [op |-> "store", id |-> key_pair.id]]
    /\ revoked' = revoked \ {key_pair.id}
    /\ UNCHANGED <<disk, now, updated_key_pair, content, ret>>

\* store_key that keeps the record already stored under the id.
store_key_keeping_existing(p, key_pair) ==
    /\ pc[p] = "idle"
    /\ LockFree
    /\ keys' = IF key_pair.id \in DOMAIN keys THEN keys
               ELSE insert(keys, key_pair.id, key_pair)
    /\ pc' = [pc EXCEPT ![p] = "save"]
    /\ call' = [call EXCEPT ![p] = [op |-> "store", id |-> key_pair.id]]
    /\ revoked' = revoked \ {key_pair.id}
    /\ UNCHANGED <<disk, lock, now, updated_key_pair, content, ret>>

\* store_key, lines 28-34: insert under the lock, release, go on to save.
store_key(p, key_pair) ==
    /\ pc[p] = "idle"
    /\ LockFree
    /\ keys' = insert(keys, key_pair.id, key_pair)
    /\ pc' = [pc EXCEPT ![p] = "save"]
    /\ call' = [call EXCEPT ![p] = [op |-> "store", id |-> key_pair.id]]
    /\ revoked' = revoked \ {key_pair.id}
    /\ UNCHANGED <<disk, lock, now, updated_key_pair, content, ret>>

\* A merge that assigns expires_at from the patch even when the patch has none.
apply_update_assigns_expiry(key_pair, update) ==
    [key_pair EXCEPT
        !.name        = IF update.name # None THEN update.name[1] ELSE @,
        !.description = IF update.description # None THEN Some(update.description[1]) ELSE @,
        !.tags        = IF update.tags # None THEN update.tags[1] ELSE @,
        !.expires_at  = update.expires_at,
        !.is_active   = IF update.is_active # None THEN update.is_active[1] ELSE @]

\* update_key's merge of the patch into a record.
apply_update(key_pair, update) ==
    [key_pair EXCEPT
        !.name        = IF update.name # None THEN update.name[1] ELSE @,
        !.description = IF update.description # None THEN Some(update.description[1]) ELSE @,
        !.tags        = IF update.tags # None THEN update.tags[1] ELSE @,
        !.expires_at  = IF update.expires_at # None THEN Some(update.expires_at[1]) ELSE @,
        !.is_active   = IF update.is_active # None THEN update.is_active[1] ELSE @]

\* update_key that merges the patch into the record as the file has it, when
\* the file has it, instead of the record of the map.
update_key_of_saved_record(p, id, update) ==
    /\ pc[p] = "idle"
    /\ LockFree
    /\ IF id \in DOMAIN keys
       THEN /\ keys' = [keys EXCEPT ![id] =
                          apply_update(IF id \in DOMAIN Records(disk)
                                       THEN Records(disk)[id] ELSE @, update)]
            /\ updated_key_pair' = [updated_key_pair EXCEPT ![p] = Some(keys'[id])]
            /\ pc' = [pc EXCEPT ![p] = "save"]
            /\ call' = [call EXCEPT ![p] = [op |-> "update", id |-> id]]
            /\ revoked' = revoked \ {id}
            /\ UNCHANGED ret
       ELSE /\ Finish(p, "update", id, KeyNotFound(id))
            /\ UNCHANGED <<keys, updated_key_pair, revoked>>
    /\ UNCHANGED <<disk, lock, now, content>>

\* update_key, lines 141-160 and 166-168.
update_key(p, id, update) ==
    /\ pc[p] = "idle"
    /\ LockFree
    /\ IF id \in DOMAIN keys
       THEN /\ keys' = [keys EXCEPT ![id] = apply_update(@, update)]
            /\ updated_key_pair' = [updated_key_pair EXCEPT ![p] = Some(keys'[id])]
            /\ pc' = [pc EXCEPT ![p] = "save"]
            /\ call' = [call EXCEPT ![p] = [op |-> "update", id |-> id]]
            /\ revoked' = revoked \ {id}
            /\ UNCHANGED ret
       ELSE /\ Finish(p, "update", id, KeyNotFound(id))
            /\ UNCHANGED <<keys, updated_key_pair, revoked>>
    /\ UNCHANGED <<disk, lock, now, content>>

\* save_to_disk that serializes the map without waiting for the lock.
save_to_disk_lock_no_wait(p) ==
    /\ pc[p] = "save"
    /\ lock' = Some(p)
    /\ \E order \in Orders(DOMAIN keys) :
          content' = [content EXCEPT ![p] = Some(to_string_pretty(keys, order))]
    /\ pc' = [pc EXCEPT ![p] = "write"]
    /\ UNCHANGED <<keys, disk, now, call, updated_key_pair, ret, revoked>>

\* save_to_disk that lets go of the lock once the map is serialized, before
\* the file is written.
save_to_disk_lock_released_before_write(p) ==
    /\ pc[p] = "save"
    /\ LockFree
    /\ lock' = None
    /\ \E order \in Orders(DOMAIN keys) :
          content' = [content EXCEPT ![p] = Some(to_string_pretty(keys, order))]
    /\ pc' = [pc EXCEPT ![p] = "write"]
    /\ UNCHANGED <<keys, disk, now, call, updated_key_pair, ret, revoked>>

\* save_to_disk, lines 273-277: take the lock and serialize the map.
save_to_disk_lock(p) ==
    /\ pc[p] = "save"
    /\ LockFree
    /\ lock' = Some(p)
    /\ \E order \in Orders(DOMAIN keys) :
          content' = [content EXCEPT ![p] = Some(to_string_pretty(keys, order))]
    /\ pc' = [pc EXCEPT ![p] = "write"]
    /\ UNCHANGED <<keys, disk, now, call, updated_key_pair, ret, revoked>>

\* save_to_disk, lines 279-283, and the return of store_key / update_key.
save_to_disk_write(p) ==
    /\ pc[p] = "write"
    /\ disk' = content[p][1]
    /\ lock' = None
    /\ content' = [content EXCEPT ![p] = None]
    /\ pc' = [pc EXCEPT ![p] = "done"]
    /\ ret' = [ret EXCEPT ![p] =
                 IF call[p].op = "update" THEN Some(Ok(updated_key_pair[p][1]))
                 ELSE Some(Ok(Unit))]
    /\ updated_key_pair' = [updated_key_pair EXCEPT ![p] = None]
    /\ UNCHANGED <<keys, now, call, revoked>>

\* save_to_disk when fs::write fails: the file could not be opened (it is
\* as it was), or the write failed after the file was opened and truncated
\* (it is left blank or with the beginning of the text).
save_to_disk_fail(p) ==
    /\ pc[p] = "write"
    /\ disk' \in {disk, BlankText, PartialText}
    /\ lock' = None
    /\ content' = [content EXCEPT ![p] = None]
    /\ pc' = [pc EXCEPT ![p] = "done"]
    /\ ret' = [ret EXCEPT ![p] = Some(StorageError)]
    /\ updated_key_pair' = [updated_key_pair EXCEPT ![p] = None]
    /\ UNCHANGED <<keys, now, call, revoked>>

\* revoke_key that only clears the flag, as deactivate_key does.
revoke_key_flag_only(p, id, reason) ==
    /\ pc[p] = "idle"
    /\ LockFree
    /\ IF id \in DOMAIN keys
       THEN /\ keys' = [keys EXCEPT ![id] = [@ EXCEPT !.is_active = FALSE]]
            /\ revoked' = revoked \cup {id}
            /\ Finish(p, "revoke", id, Ok(Unit))
       ELSE /\ Finish(p, "revoke", id, KeyNotFound(id))
            /\ UNCHANGED <<keys, revoked>>
    /\ UNCHANGED <<disk, lock, now, updated_key_pair, content>>

\* revoke_key that only sets the expiry to the time of the call.
revoke_key_expiry_only(p, id, reason) ==
    /\ pc[p] = "idle"
    /\ LockFree
    /\ IF id \in DOMAIN keys
       THEN /\ keys' = [keys EXCEPT ![id] = [@ EXCEPT !.expires_at = Some(now)]]
            /\ revoked' = revoked \cup {id}
            /\ Finish(p, "revoke", id, Ok(Unit))
       ELSE /\ Finish(p, "revoke", id, KeyNotFound(id))
            /\ UNCHANGED <<keys, revoked>>
    /\ UNCHANGED <<disk, lock, now, updated_key_pair, content>>

\* revoke_key that also forgets the salt of the key it revokes.
revoke_key_dropping_salt(p, id, reason) ==
    /\ pc[p] = "idle"
    /\ LockFree
    /\ IF id \in DOMAIN keys
       THEN /\ keys' = [keys EXCEPT ![id] =
                          [@ EXCEPT !.is_active = FALSE, !.expires_at = Some(now),
                                    !.salt = None]]
            /\ revoked' = revoked \cup {id}
            /\ Finish(p, "revoke", id, Ok(Unit))
       ELSE /\ Finish(p, "revoke", id, KeyNotFound(id))
            /\ UNCHANGED <<keys, revoked>>
    /\ UNCHANGED <<disk, lock, now, updated_key_pair, content>>

\* revoke_key(key_id, _reason): the reason is a parameter the body never reads.
revoke_key(p, id, reason) ==
    /\ pc[p] = "idle"
    /\ LockFree
    /\ IF id \in DOMAIN keys
       THEN /\ keys' = [keys EXCEPT ![id] =
                          [@ EXCEPT !.is_active = FALSE, !.expires_at = Some(now)]]
            /\ revoked' = revoked \cup {id}
            /\ Finish(p, "revoke", id, Ok(Unit))
       ELSE /\ Finish(p, "revoke", id, KeyNotFound(id))
            /\ UNCHANGED <<keys, revoked>>
    /\ UNCHANGED <<disk, lock, now, updated_key_pair, content>>

\* update_last_used that answers Ok for an id that is not stored.
update_last_used_always_ok(p, id) ==
    /\ pc[p] = "idle"
    /\ LockFree
    /\ keys' = IF id \in DOMAIN keys
               THEN [keys EXCEPT ![id] = [@ EXCEPT !.last_used = Some(now)]]
               ELSE keys
    /\ Finish(p, "touch", id, Ok(Unit))
    /\ UNCHANGED <<disk, lock, now, updated_key_pair, content, revoked>>

\* update_last_used that also renews the expiry of the record it touches.
update_last_used_renewing(p, id) ==
    /\ pc[p] = "idle"
    /\ LockFree
    /\ IF id \in DOMAIN keys
       THEN /\ keys' = [keys EXCEPT ![id] =
                          [@ EXCEPT !.last_used = Some(now), !.expires_at = Some(now)]]
            /\ Finish(p, "touch", id, Ok(Unit))
       ELSE /\ Finish(p, "touch", id, KeyNotFound(id))
            /\ UNCHANGED keys
    /\ UNCHANGED <<disk, lock, now, updated_key_pair, content, revoked>>

\* update_last_used that goes through get_key and so refuses a record that
\* is expired or revoked.
update_last_used_active_only(p, id) ==
    /\ pc[p] = "idle"
    /\ LockFree
    /\ LET got == get_key_result(keys, id, now) IN
       IF got.kind = "Ok"
       THEN /\ keys' = [keys EXCEPT ![id] = [@ EXCEPT !.last_used = Some(now)]]
            /\ Finish(p, "touch", id, Ok(Unit))
       ELSE /\ Finish(p, "touch", id, got)
            /\ UNCHANGED keys
    /\ UNCHANGED <<disk, lock, now, updated_key_pair, content, revoked>>

\* update_last_used
update_last_used(p, id) ==
    /\ pc[p] = "idle"
    /\ LockFree
    /\ IF id \in DOMAIN keys
       THEN /\ keys' = [keys EXCEPT ![id] = [@ EXCEPT !.last_used = Some(now)]]
            /\ Finish(p, "touch", id, Ok(Unit))
       ELSE /\ Finish(p, "touch", id, KeyNotFound(id))
            /\ UNCHANGED keys
    /\ UNCHANGED <<disk, lock, now, updated_key_pair, content, revoked>>

\* A KeyInfo that copies the stored is_active flag.
KeyInfo_stored_flag(key_pair, t) ==
    [id           |-> key_pair.id,
     name         |-> key_pair.name,
     description  |-> key_pair.description,
     public_key   |-> key_pair.public_key,
     created_at   |-> key_pair.created_at,
     last_used    |-> key_pair.last_used,
     expires_at   |-> key_pair.expires_at,
     is_active    |-> key_pair.is_active,
     tags         |-> key_pair.tags,
     key_type     |-> key_pair.key_type,
     key_strength |-> key_pair.key_strength]

\* list_keys, lines 71-86: the KeyInfo built for one record at time t.
KeyInfo(key_pair, t) ==
    LET is_expired == key_pair.expires_at # None /\ t > key_pair.expires_at[1]
        is_active == key_pair.is_active /\ ~is_expired
    IN [id           |-> key_pair.id,
        name         |-> key_pair.name,
        description  |-> key_pair.description,
        public_key   |-> key_pair.public_key,
        created_at   |-> key_pair.created_at,
        last_used    |-> key_pair.last_used,
        expires_at   |-> key_pair.expires_at,
        is_active    |-> is_active,
        tags         |-> key_pair.tags,
        key_type     |-> key_pair.key_type,
        key_strength |-> key_pair.key_strength]

\* list_keys: the Vec<KeyInfo> collected from the values of m at time t, the
\* map iterating in the given order.
list_keys_result(m, t, order) ==
    [i \in 1..Len(order) |-> KeyInfo(m[order[i]], t)]

\* A read method that ran its locked section and returns the value v.
Answer(p, op, v) ==
    /\ pc' = [pc EXCEPT ![p] = "done"]
    /\ call' = [call EXCEPT ![p] = [op |-> op]]
    /\ ret' = [ret EXCEPT ![p] = Some(Ok(v))]

\* list_keys that writes the effective is_active back into the records.
list_keys_storing_effective_state(p) ==
    /\ pc[p] = "idle"
    /\ LockFree
    /\ \E order \in Orders(DOMAIN keys) :
          Answer(p, "list", list_keys_result(keys, now, order))
    /\ keys' = [id \in DOMAIN keys |->
                  [keys[id] EXCEPT !.is_active = KeyInfo(keys[id], now).is_active]]
    /\ UNCHANGED <<disk, lock, now, updated_key_pair, content, revoked>>

list_keys(p) ==
    /\ pc[p] = "idle"
    /\ LockFree
    /\ \E order \in Orders(DOMAIN keys) :
          Answer(p, "list", list_keys_result(keys, now, order))
    /\ UNCHANGED <<keys, disk, lock, now, updated_key_pair, content, revoked>>

\* Vec::contains and Iterator::all over the required tags.
contains(tags, tag) == \E i \in 1..Len(tags) : tags[i] = tag

\* The filters of list_keys_filtered.
Filters ==
    [active_only : Opt(BOOLEAN),
     key_type    : Opt({"Ed25519", "Ed25519Encrypted"}),
     tags        : Opt({<<"t1">>})]

\* list_keys_filtered, lines 101-124: whether a KeyInfo passes the filter.
passes(key, filter) ==
    /\ (filter.active_only # None) => (key.is_active = filter.active_only[1])
    /\ (filter.key_type # None) => (key.key_type = filter.key_type[1])
    /\ (filter.tags # None) =>
          (\A i \in 1..Len(filter.tags[1]) : contains(key.tags, filter.tags[1][i]))

list_keys_filtered(p, filter) ==
    /\ pc[p] = "idle"
    /\ LockFree
    /\ \E order \in Orders(DOMAIN keys) :
          Answer(p, "filter",
                 SelectSeq(list_keys_result(keys, now, order),
                           LAMBDA key : passes(key, filter)))
    /\ UNCHANGED <<keys, disk, lock, now, updated_key_pair, content, revoked>>

\* The queries of search_keys, and str::to_lowercase and str::contains on
\* the strings of the model.
Queries == {"N", "t1", "zz"}

to_lowercase(s) == IF s = "N" THEN "n" ELSE s

str_contains(s, pattern) == pattern = s \/ (pattern = "n" /\ s \in {"n0", "n1"})

\* search_keys, lines 303-307: whether a KeyInfo matches the query.
matches(key, query) ==
    LET query_lower == to_lowercase(query) IN
    \/ str_contains(to_lowercase(key.name), query_lower)
    \/ (key.description # None
          /\ str_contains(to_lowercase(key.description[1]), query_lower))
    \/ \E i \in 1..Len(key.tags) : str_contains(to_lowercase(key.tags[i]), query_lower)

search_keys(p, query) ==
    /\ pc[p] = "idle"
    /\ LockFree
    /\ \E order \in Orders(DOMAIN keys) :
          Answer(p, "search",
                 SelectSeq(list_keys_result(keys, now, order),
                           LAMBDA key : matches(key, query)))
    /\ UNCHANGED <<keys, disk, lock, now, updated_key_pair, content, revoked>>

\* The horizons of get_keys_expiring_soon, in units of the model clock.
Days == {0, 1}

\* get_keys_expiring_soon, lines 216-221, every Utc::now() reading t.
expiring_soon(key, days, t) ==
    key.expires_at # None /\ key.expires_at[1] <= t + days /\ key.expires_at[1] > t

get_keys_expiring_soon(p, days) ==
    /\ pc[p] = "idle"
    /\ LockFree
    /\ \E order \in Orders(DOMAIN keys) :
          Answer(p, "expiring",
                 SelectSeq(list_keys_result(keys, now, order),
                           LAMBDA key : expiring_soon(key, days, now)))
    /\ UNCHANGED <<keys, disk, lock, now, updated_key_pair, content, revoked>>

\* Iterator::filter(..).count()
count(list, Test(_)) == Len(SelectSeq(list, Test))

\* get_key_stats, lines 231-238: (total, active, expired, revoked) of a list.
key_stats(list, t) ==
    <<Len(list),
      count(list, LAMBDA k : k.is_active),
      count(list, LAMBDA k : k.expires_at # None /\ t > k.expires_at[1]),
      count(list, LAMBDA k : ~k.is_active)>>

get_key_stats(p) ==
    /\ pc[p] = "idle"
    /\ LockFree
    /\ \E order \in Orders(DOMAIN keys) :
          Answer(p, "stats", key_stats(list_keys_result(keys, now, order), now))
    /\ UNCHANGED <<keys, disk, lock, now, updated_key_pair, content, revoked>>

\* The documents of the callers: a short text and a text of 64 characters;
\* and what they send as document_hash: the SHA-256 of the short text in
\* hexadecimal, a hexadecimal digest of another length, and the text of 64
\* characters.
Contents ==
    {[chars |-> 13, hex |-> None, text |-> "Hello, World!"],
     [chars |-> 64, hex |-> None, text |-> "a line of 64 characters"]}

DocumentHashes ==
    {create_document_hash([chars |-> 13, hex |-> None, text |-> "Hello, World!"]),
     hex_encode([len |-> 20, sha1 |-> "Hello, World!"]),
     [chars |-> 64, hex |-> None, text |-> "a line of 64 characters"]}

SignDocumentRequests ==
    [key_id           : Ids,
     document_hash    : Opt(DocumentHashes),
     password         : Opt(Passwords),
     document_content : Opt(Contents)]

SignDocumentResponse(success, signature, message, key_id, document_hash, signing_time) ==
    [success       |-> success,
     signature     |-> signature,
     message       |-> message,
     key_id        |-> key_id,
     document_hash |-> document_hash,
     signing_time  |-> signing_time]

\* The sign_document handler, lines 178-224: the result of the signing
\* function it calls for the request.
signature_for(request, key_pair) ==
    IF request.document_content # None
    THEN sign_document_content(request, key_pair.private_key, key_pair.salt,
                               request.document_content[1])
    ELSE sign_document([request EXCEPT !.document_content = None],
                       key_pair.private_key, key_pair.salt)

\* The sign_document handler, lines 151-224 and 229-251: its answer when
\* get_key returned got and the clock reads t.
sign_document_response(request, got, t) ==
    IF got.kind # "Ok"
    THEN Ok(SignDocumentResponse(FALSE, None, "Key not found or invalid", None, None, None))
    ELSE IF ~got.value.is_active
    THEN Ok(SignDocumentResponse(FALSE, None, "Key is not active",
                                 Some(request.key_id), None, None))
    ELSE IF request.document_content = None /\ request.document_hash = None
    THEN Ok(SignDocumentResponse(FALSE, None,
                                 "Either document_hash or document_content must be provided",
                                 Some(request.key_id), None, None))
    ELSE LET signature == signature_for(request, got.value) IN
         IF signature = Panic THEN Panic
         ELSE IF signature.kind # "Ok"
         THEN Ok(SignDocumentResponse(FALSE, None,
                                      IF request.document_content # None
                                      THEN "Failed to sign document content"
                                      ELSE "Failed to sign document",
                                      Some(request.key_id), None, None))
         ELSE Ok(SignDocumentResponse(TRUE, Some(signature.value),
                                      "Document signed successfully",
                                      Some(request.key_id),
                                      IF request.document_content # None
                                      THEN Some(create_document_hash(request.document_content[1]))
                                      ELSE request.document_hash,
                                      Some(t)))

\* The handler going on to update_last_used whatever the signing returned.
sign_document_handler_always_touching(p, request) ==
    /\ pc[p] = "idle"
    /\ LockFree
    /\ call' = [call EXCEPT ![p] = [op |-> "sign", id |-> request.key_id]]
    /\ LET response == sign_document_response(request,
                                              get_key_result(keys, request.key_id, now), now)
       IN /\ pc' = [pc EXCEPT ![p] = "touch"]
          /\ ret' = [ret EXCEPT ![p] = Some(response)]
    /\ UNCHANGED <<keys, disk, lock, now, updated_key_pair, content, revoked>>

\* The sign_document handler up to line 224: get_key under the lock, then
\* the signing; a signature made, it goes on to update_last_used.
sign_document_handler(p, request) ==
    /\ pc[p] = "idle"
    /\ LockFree
    /\ call' = [call EXCEPT ![p] = [op |-> "sign", id |-> request.key_id]]
    /\ LET response == sign_document_response(request,
                                              get_key_result(keys, request.key_id, now), now)
       IN /\ pc' = [pc EXCEPT ![p] =
                      IF response.kind = "Ok" /\ response.value.success
                      THEN "touch" ELSE "done"]
          /\ ret' = [ret EXCEPT ![p] = Some(response)]
    /\ UNCHANGED <<keys, disk, lock, now, updated_key_pair, content, revoked>>

\* The sign_document handler, line 227: update_last_used, its result dropped.
sign_document_touch(p) ==
    /\ pc[p] = "touch"
    /\ LockFree
    /\ keys' = IF call[p].id \in DOMAIN keys
               THEN [keys EXCEPT ![call[p].id] = [@ EXCEPT !.last_used = Some(now)]]
               ELSE keys
    /\ pc' = [pc EXCEPT ![p] = "done"]
    /\ UNCHANGED <<disk, lock, now, call, updated_key_pair, content, ret, revoked>>

\* What the callers send as signature: the signatures of the stored keys on
\* the SHA-256 of the short text, the text of its first 32 bytes only, and
\* 64 zero bytes.
Signatures ==
    {encode(ed25519_sign(id, sha256([chars |-> 13, hex |-> None, text |-> "Hello, World!"]))) :
        id \in Ids}
    \cup {encode([len |-> 32, zero |-> TRUE]), encode([len |-> 64, zero |-> TRUE])}

VerifySignatureRequests ==
    [public_key       : {encode(verifying_key_bytes(id)) : id \in Ids},
     document_hash    : Opt(DocumentHashes),
     signature        : Signatures,
     document_content : Opt(Contents)]

\* The verify_signature handler: it never touches the registry.
verify_signature_response(request, t) ==
    IF request.document_content = None /\ request.document_hash = None
    THEN [success |-> FALSE, is_valid |-> FALSE,
          message |-> "Either document_hash or document_content must be provided",
          verification_time |-> Some(t), document_hash |-> None]
    ELSE LET document_hash ==
                 IF request.document_content # None
                 THEN create_document_hash(request.document_content[1])
                 ELSE request.document_hash[1]
             verified ==
                 verify_signature([request EXCEPT !.document_hash = Some(document_hash),
                                                  !.document_content = None])
             is_valid == verified.kind = "Ok" /\ verified.value
         IN [success |-> TRUE, is_valid |-> is_valid,
             message |-> IF is_valid THEN "Signature is valid" ELSE "Signature is invalid",
             verification_time |-> Some(t), document_hash |-> Some(document_hash)]

verify_signature_handler(p, request) ==
    /\ pc[p] = "idle"
    /\ Answer(p, "verify", verify_signature_response(request, now))
    /\ UNCHANGED <<keys, disk, lock, now, updated_key_pair, content, revoked>>

\* A caller of decrypt_private_key; it never touches the registry.
decrypt(p, encrypted_private_key, password, salt) ==
    /\ pc[p] = "idle"
    /\ pc' = [pc EXCEPT ![p] = "done"]
    /\ call' = [call EXCEPT ![p] = [op |-> "decrypt"]]
    /\ ret' = [ret EXCEPT ![p] =
                 Some(decrypt_private_key(encrypted_private_key, password, salt))]
    /\ UNCHANGED <<keys, disk, lock, now, updated_key_pair, content, revoked>>

\* What a caller may hand to sign_document as private_key_b64 besides the
\* material of a generated record: a text that is not base64, the 32 bytes of
\* a bare seed, 64 bytes whose public half is not the key of the secret half,
\* the envelope of a bare seed sealed under "pw", and 80 bytes that are no
\* envelope; each with the salt that goes with it.
ForeignKeyMaterial ==
    {<<[text |-> "not base64"], None>>,
     <<encode([len |-> 32, seed |-> "k1"]), None>>,
     <<encode([len |-> 64, secret |-> "k1", public |-> "k2"]), None>>,
     encrypt_private_key([len |-> 32, seed |-> "k1"], "pw",
                         [len |-> 32, salt |-> "k1"], [len |-> 12, nonce |-> "k1"]),
     <<encode([len |-> 80, noise |-> TRUE]), Some(encode([len |-> 32, salt |-> "k1"]))>>}

\* A caller of the signing functions with the material and salt it holds:
\* sign_document_content when the request has a content, else sign_document.
call_sign(p, request, private_key_b64, salt_b64) ==
    /\ pc[p] = "idle"
    /\ pc' = [pc EXCEPT ![p] = "done"]
    /\ call' = [call EXCEPT ![p] = [op |-> "sign_document"]]
    /\ ret' = [ret EXCEPT ![p] =
                 Some(signature_for(request, [private_key |-> private_key_b64,
                                              salt        |-> salt_b64]))]
    /\ UNCHANGED <<keys, disk, lock, now, updated_key_pair, content, revoked>>

\* What a caller may send as public_key besides the key of a generated
\* record: a text that is not base64, 31 bytes, and 32 bytes that are not
\* the encoding of a point of the curve.
PublicKeyTexts ==
    {encode(verifying_key_bytes(id)) : id \in Ids}
    \cup {[text |-> "not base64"],
          encode([len |-> 31, zero |-> TRUE]),
          encode([len |-> 32, off_curve |-> TRUE])}

\* What a caller may send as signature: the texts of Signatures and a text
\* that is not base64.
SignatureTexts == Signatures \cup {[text |-> "not base64"]}

VerifyArguments ==
    [public_key       : PublicKeyTexts,
     document_hash    : Opt(DocumentHashes),
     signature        : SignatureTexts,
     document_content : {None}]

\* A caller of verify_signature; it never touches the registry.
call_verify_signature(p, request) ==
    /\ pc[p] = "idle"
    /\ pc' = [pc EXCEPT ![p] = "done"]
    /\ call' = [call EXCEPT ![p] = [op |-> "verify_signature"]]
    /\ ret' = [ret EXCEPT ![p] = Some(verify_signature(request))]
    /\ UNCHANGED <<keys, disk, lock, now, updated_key_pair, content, revoked>>

\* The answers of the revoke_key handler: the JSON body of a 200, or the
\* bare status code of an Err(StatusCode).
StatusCode(code) == [kind |-> "StatusCode", code |-> code]
NOT_FOUND == 404
INTERNAL_SERVER_ERROR == 500

RevokeKeyResponse(success, key_info, message, revocation_time) ==
    [success |-> success, key_info |-> key_info, message |-> message,
     revocation_time |-> revocation_time]

\* api revoke_key, lines 342-343 and 371: storage.revoke_key under the lock;
\* NOT_FOUND when it errs, otherwise go on to read the key back.
revoke_key_handler(p, id, reason) ==
    /\ pc[p] = "idle"
    /\ LockFree
    /\ call' = [call EXCEPT ![p] = [op |-> "revoke_handler", id |-> id]]
    /\ IF id \in DOMAIN keys
       THEN /\ keys' = [keys EXCEPT ![id] =
                          [@ EXCEPT !.is_active = FALSE, !.expires_at = Some(now)]]
            /\ revoked' = revoked \cup {id}
            /\ pc' = [pc EXCEPT ![p] = "info"]
            /\ UNCHANGED ret
       ELSE /\ pc' = [pc EXCEPT ![p] = "done"]
            /\ ret' = [ret EXCEPT ![p] = Some(StatusCode(NOT_FOUND))]
            /\ UNCHANGED <<keys, revoked>>
    /\ UNCHANGED <<disk, lock, now, updated_key_pair, content>>

\* api revoke_key, lines 347-359: the KeyInfo of a record as get_key
\* returned it, is_active copied as stored.
key_info(key_pair) ==
    [id           |-> key_pair.id,
     name         |-> key_pair.name,
     description  |-> key_pair.description,
     public_key   |-> key_pair.public_key,
     created_at   |-> key_pair.created_at,
     last_used    |-> key_pair.last_used,
     expires_at   |-> key_pair.expires_at,
     is_active    |-> key_pair.is_active,
     tags         |-> key_pair.tags,
     key_type     |-> key_pair.key_type,
     key_strength |-> key_pair.key_strength]

\* api revoke_key, lines 345-369: the answer made from what get_key returns
\* for the key just revoked.
revoke_key_response(got, t) ==
    IF got.kind = "Ok"
    THEN Ok(RevokeKeyResponse(TRUE, Some(key_info(got.value)),
                              "Key revoked successfully", Some(t)))
    ELSE StatusCode(INTERNAL_SERVER_ERROR)

revoke_key_handler_get(p) ==
    /\ pc[p] = "info"
    /\ LockFree
    /\ pc' = [pc EXCEPT ![p] = "done"]
    /\ ret' = [ret EXCEPT ![p] = Some(revoke_key_response(get_key_result(keys, call[p].id, now), now))]
    /\ UNCHANGED <<keys, disk, lock, now, call, updated_key_pair, content, revoked>>

\* load_from_disk, lines 242-269, called on the registry in use: the file
\* is read and its records are inserted over those of the map.
load_from_disk(p) ==
    LET loaded == load_from_disk_result(keys, disk) IN
    /\ pc[p] = "idle"
    /\ LockFree
    /\ keys' = loaded.keys
    /\ pc' = [pc EXCEPT ![p] = "done"]
    /\ call' = [call EXCEPT ![p] = [op |-> "load"]]
    /\ ret' = [ret EXCEPT ![p] = Some(loaded.result)]
    /\ revoked' = {id \in revoked : id \notin DOMAIN keys \/ loaded.keys[id] = keys[id]}
    /\ UNCHANGED <<disk, lock, now, updated_key_pair, content>>

\* The longest batch a caller sends.
MaxBatch == 3

\* Items of a batch: a signature of k1 under the key of k1 and under the key
\* of k2, a key that is not base64, a signature of 32 bytes, and an item
\* without a document hash.
BatchItems ==
    LET hello == [chars |-> 13, hex |-> None, text |-> "Hello, World!"]
        item(id, document_hash, signature) ==
            [public_key       |-> encode(verifying_key_bytes(id)),
             document_hash    |-> document_hash,
             signature        |-> signature,
             document_content |-> None]
        signed == encode(ed25519_sign("k1", sha256(hello)))
    IN {item("k1", Some(create_document_hash(hello)), signed),
        item("k2", Some(create_document_hash(hello)), signed),
        [item("k1", Some(create_document_hash(hello)), signed)
            EXCEPT !.public_key = [text |-> "not base64"]],
        item("k1", Some(create_document_hash(hello)), encode([len |-> 32, zero |-> TRUE])),
        item("k1", None, signed)}

Batches == UNION {[1..n -> BatchItems] : n \in 0..MaxBatch}

\* A loop that leaves out the items verify_signature refuses and goes on.
batch_loop_skipping_errors(verifications, index, results) ==
    LET RECURSIVE loop(_, _)
        loop(i, found) ==
            IF i = Len(verifications) THEN [result |-> Ok(found), verified |-> i]
            ELSE LET is_valid == verify_signature(verifications[i + 1]) IN
                 loop(i + 1, IF is_valid.kind = "Ok"
                             THEN insert(found, i, is_valid.value) ELSE found)
    IN loop(index, results)

\* batch_verify_signatures, lines 166-169: the loop from the item at index
\* on (indices from 0), results holding what was inserted so far; the ? on
\* verify_signature returns its error at once. verified counts the items
\* verify_signature was called on.
RECURSIVE batch_loop(_, _, _)
batch_loop(verifications, index, results) ==
    IF index = Len(verifications) THEN [result |-> Ok(results), verified |-> index]
    ELSE LET is_valid == verify_signature(verifications[index + 1]) IN
         IF is_valid.kind # "Ok" THEN [result |-> is_valid, verified |-> index + 1]
         ELSE batch_loop(verifications, index + 1, insert(results, index, is_valid.value))

\* batch_verify_signatures, lines 161-172.
batch_verify_signatures(verifications) ==
    batch_loop(verifications, 0, EmptyMap).result

\* A caller of batch_verify_signatures; it never touches the registry.
call_batch_verify_signatures(p, verifications) ==
    /\ pc[p] = "idle"
    /\ pc' = [pc EXCEPT ![p] = "done"]
    /\ call' = [call EXCEPT ![p] =
                  [op |-> "batch_verify_signatures",
                   verifications |-> verifications,
                   verified |-> batch_loop(verifications, 0, EmptyMap).verified]]
    /\ ret' = [ret EXCEPT ![p] = Some(batch_verify_signatures(verifications))]
    /\ UNCHANGED <<keys, disk, lock, now, updated_key_pair, content, revoked>>

\* main, lines 37-38: the process, stopped while no request was in flight,
\* starts again: task p makes a new KeyStorage and calls load_from_disk.
\* When the load fails main returns the error and the process exits.
main(p) ==
    LET loaded == load_from_disk_result(EmptyMap, disk) IN
    /\ \A q \in Procs : pc[q] \in {"idle", "done", "exited"}
    /\ keys' = loaded.keys
    /\ pc' = IF loaded.result = Ok(Unit)
             THEN [q \in Procs |-> IF q = p THEN "done" ELSE "idle"]
             ELSE [q \in Procs |-> "exited"]
    /\ call' = [q \in Procs |-> IF q = p THEN [op |-> "load"] ELSE NoCall]
    /\ ret' = [q \in Procs |-> IF q = p THEN Some(loaded.result) ELSE None]
    /\ lock' = None
    /\ updated_key_pair' = [q \in Procs |-> None]
    /\ content' = [q \in Procs |-> None]
    /\ UNCHANGED <<disk, now, revoked>>

\* The caller takes the result; the worker is free for the next request.
Return(p) ==
    /\ pc[p] = "done"
    /\ pc' = [pc EXCEPT ![p] = "idle"]
    /\ call' = [call EXCEPT ![p] = NoCall]
    /\ ret' = [ret EXCEPT ![p] = None]
    /\ UNCHANGED <<keys, disk, lock, now, updated_key_pair, content, revoked>>

\* Time passes.
Tick ==
    /\ now < MaxTime
    /\ now' = now + 1
    /\ UNCHANGED <<keys, disk, lock, pc, call, updated_key_pair, content, ret, revoked>>

----------------------------------------------------------------------------
\* One worker serves the requests one after the other; the callers store key
\* pairs generated at time 0 and change the lifecycle fields only; time
\* passes; the disk never fails.
Next ==
    \/ \E id \in Ids : get_key("p1", id)
    \/ \E id \in Ids, request \in UnprotectedRequests :
          store_key("p1", generate_key_pair(id, request, 0))
    \/ \E id \in Ids, update \in LifecycleUpdates : update_key("p1", id, update)
    \/ save_to_disk_lock("p1")
    \/ save_to_disk_write("p1")
    \/ \E id \in Ids, reason \in RevokeReasons : revoke_key("p1", id, reason)
    \/ Return("p1")
    \/ Tick

Spec == Init /\ [][Next]_vars

\* One worker; every mutating method, on stored and on unknown ids.
NextMutate ==
    \/ \E id \in Ids, request \in PlainRequests :
          store_key("p1", generate_key_pair(id, request, 0))
    \/ \E id \in Ids, update \in SingleFieldUpdates : update_key("p1", id, update)
    \/ save_to_disk_lock("p1")
    \/ save_to_disk_write("p1")
    \/ \E id \in Ids, reason \in RevokeReasons : revoke_key("p1", id, reason)
    \/ \E id \in Ids : update_last_used("p1", id)
    \/ Return("p1")

SpecMutate == Init /\ [][NextMutate]_vars

\* One worker; the callers store keys and patch any combination of fields.
NextUpdate ==
    \/ \E id \in Ids, request \in PlainRequests :
          store_key("p1", generate_key_pair(id, request, 0))
    \/ \E id \in Ids, update \in MetadataUpdates : update_key("p1", id, update)
    \/ save_to_disk_lock("p1")
    \/ save_to_disk_write("p1")
    \/ Return("p1")

SpecUpdate == Init /\ [][NextUpdate]_vars

\* Two workers serve requests concurrently; any interleaving of their steps.
NextConc ==
    \E p \in Procs :
        \/ \E id \in Ids : get_key(p, id)
        \/ \E id \in Ids, request \in PlainRequests :
              store_key(p, generate_key_pair(id, request, 0))
        \/ \E id \in Ids, update \in SingleFieldUpdates : update_key(p, id, update)
        \/ save_to_disk_lock(p)
        \/ save_to_disk_write(p)
        \/ \E id \in Ids, reason \in RevokeReasons : revoke_key(p, id, reason)
        \/ Return(p)

SpecConc == Init /\ [][NextConc]_vars

\* One worker; stores, lifecycle patches, revocations and the passing of
\* time, observed through every read method.
NextRead ==
    \/ \E id \in Ids, request \in UnprotectedRequests :
          store_key("p1", generate_key_pair(id, request, 0))
    \/ \E id \in Ids, update \in LifecycleUpdates : update_key("p1", id, update)
    \/ save_to_disk_lock("p1")
    \/ save_to_disk_write("p1")
    \/ \E id \in Ids, reason \in RevokeReasons : revoke_key("p1", id, reason)
    \/ \E id \in Ids : get_key("p1", id)
    \/ list_keys("p1")
    \/ \E filter \in Filters : list_keys_filtered("p1", filter)
    \/ \E query \in Queries : search_keys("p1", query)
    \/ \E days \in Days : get_keys_expiring_soon("p1", days)
    \/ get_key_stats("p1")
    \/ Return("p1")
    \/ Tick

SpecRead == Init /\ [][NextRead]_vars

\* One worker and one key: every method of the registry on that key, and
\* the passing of time.
NextOneKey ==
    \/ \E request \in UnprotectedRequests :
          store_key("p1", generate_key_pair("k1", request, 0))
    \/ \E update \in LifecycleUpdates : update_key("p1", "k1", update)
    \/ save_to_disk_lock("p1")
    \/ save_to_disk_write("p1")
    \/ \E reason \in RevokeReasons : revoke_key("p1", "k1", reason)
    \/ update_last_used("p1", "k1")
    \/ get_key("p1", "k1")
    \/ list_keys("p1")
    \/ \E filter \in Filters : list_keys_filtered("p1", filter)
    \/ \E query \in Queries : search_keys("p1", query)
    \/ \E days \in Days : get_keys_expiring_soon("p1", days)
    \/ get_key_stats("p1")
    \/ Return("p1")
    \/ Tick

SpecOneKey == Init /\ [][NextOneKey]_vars

\* One worker; keys with and without a password are stored, and the
\* process is stopped and started again.
NextReload ==
    \/ \E id \in Ids, request \in GenerateKeyRequests :
          store_key("p1", generate_key_pair(id, request, 0))
    \/ save_to_disk_lock("p1")
    \/ save_to_disk_write("p1")
    \/ Return("p1")
    \/ main("p1")

SpecReload == Init /\ [][NextReload]_vars

\* One worker; records are stored and revoked, read back, and the process
\* is stopped and started again.
NextRestart ==
    \/ \E id \in Ids, request \in PlainRequests :
          store_key("p1", generate_key_pair(id, request, 0))
    \/ save_to_disk_lock("p1")
    \/ save_to_disk_write("p1")
    \/ \E id \in Ids, reason \in RevokeReasons : revoke_key("p1", id, reason)
    \/ \E id \in Ids : get_key("p1", id)
    \/ list_keys("p1")
    \/ Return("p1")
    \/ main("p1")
    \/ Tick

SpecRestart == Init /\ [][NextRestart]_vars

\* Two workers that only store and patch records, every write of the file
\* succeeding; any interleaving of their steps.
NextWriters ==
    \E p \in Procs :
        \/ \E id \in Ids, request \in PlainRequests :
              store_key(p, generate_key_pair(id, request, 0))
        \/ \E id \in Ids, update \in SingleFieldUpdates : update_key(p, id, update)
        \/ save_to_disk_lock(p)
        \/ save_to_disk_write(p)
        \/ Return(p)

SpecWriters == Init /\ [][NextWriters]_vars

\* The patches of two callers on disjoint fields: the first renames the
\* key, the second tags it.
NamePatch ==
    [name |-> Some("n1"), description |-> None, tags |-> None,
     expires_at |-> None, is_active |-> None]

TagsPatch ==
    [name |-> None, description |-> None, tags |-> Some(<<"t1">>),
     expires_at |-> None, is_active |-> None]

\* Two workers patch the one stored key concurrently, the first with
\* NamePatch and the second with TagsPatch, while time passes; the key is
\* stored once.
NextPatch ==
    \/ \E p \in Procs :
          /\ keys = EmptyMap
          /\ \E request \in PlainRequests :
                store_key(p, generate_key_pair("k1", request, 0))
    \/ update_key("p1", "k1", NamePatch)
    \/ update_key("p2", "k1", TagsPatch)
    \/ \E p \in Procs :
          \/ save_to_disk_lock(p)
          \/ save_to_disk_write(p)
          \/ Return(p)
    \/ Tick

SpecPatch == Init /\ [][NextPatch]_vars

\* Two workers on the one key, concurrently: the first stores, patches and
\* revokes it, the second serves sign requests; time passes.
NextRace ==
    \/ \E request \in GenerateKeyRequests :
          /\ request.expires_at = None
          /\ store_key("p1", generate_key_pair("k1", request, 0))
    \/ \E update \in LifecycleUpdates :
          /\ update.expires_at = None
          /\ update_key("p1", "k1", update)
    \/ save_to_disk_lock("p1")
    \/ save_to_disk_write("p1")
    \/ \E reason \in RevokeReasons : revoke_key("p1", "k1", reason)
    \/ \E request \in SignDocumentRequests :
          /\ request.key_id = "k1"
          /\ sign_document_handler("p2", request)
    \/ sign_document_touch("p2")
    \/ \E p \in Procs : Return(p)
    \/ Tick

SpecRace == Init /\ [][NextRace]_vars

\* Two workers: revoke requests come in through the handler of the api
\* while keys are stored, patched and read and time passes.
NextRevoke ==
    \/ \E p \in Procs :
          \/ \E id \in Ids, request \in PlainRequests :
                store_key(p, generate_key_pair(id, request, 0))
          \/ \E update \in LifecycleUpdates :
                /\ update.expires_at = None
                /\ update_key(p, "k1", update)
          \/ save_to_disk_lock(p)
          \/ save_to_disk_write(p)
          \/ \E id \in Ids, reason \in RevokeReasons : revoke_key_handler(p, id, reason)
          \/ revoke_key_handler_get(p)
          \/ \E id \in Ids : get_key(p, id)
          \/ Return(p)
    \/ Tick

SpecRevoke == Init /\ [][NextRevoke]_vars

\* One worker and one key: keys generated at the time of the call, with and
\* without a password, are stored over one another, patched, revoked,
\* touched and read, and the process is stopped and started again.
NextFrame ==
    \/ \E request \in GenerateKeyRequests :
          /\ request.expires_at = None
          /\ store_key("p1", generate_key_pair("k1", request, now))
    \/ \E update \in LifecycleUpdates \cup SingleFieldUpdates :
          update_key("p1", "k1", update)
    \/ save_to_disk_lock("p1")
    \/ save_to_disk_write("p1")
    \/ \E reason \in RevokeReasons : revoke_key("p1", "k1", reason)
    \/ update_last_used("p1", "k1")
    \/ get_key("p1", "k1")
    \/ list_keys("p1")
    \/ \E filter \in Filters : list_keys_filtered("p1", filter)
    \/ \E query \in Queries : search_keys("p1", query)
    \/ \E days \in Days : get_keys_expiring_soon("p1", days)
    \/ get_key_stats("p1")
    \/ main("p1")
    \/ Return("p1")
    \/ Tick

SpecFrame == Init /\ [][NextFrame]_vars

\* One worker; keys with and without a password are stored, also over a
\* stored id, revoked and touched, while time passes.
NextStore ==
    \/ \E id \in Ids, request \in GenerateKeyRequests :
          /\ request.expires_at = None
          /\ store_key("p1", generate_key_pair(id, request, 0))
    \/ save_to_disk_lock("p1")
    \/ save_to_disk_write("p1")
    \/ \E id \in Ids, reason \in RevokeReasons : revoke_key("p1", id, reason)
    \/ \E id \in Ids : update_last_used("p1", id)
    \/ Return("p1")
    \/ Tick

SpecStore == Init /\ [][NextStore]_vars

\* One worker; keys with and without an expiry are stored and revoked, the
\* write of the file may fail, time passes, and the file is loaded into the
\* registry in use or into that of a new process.
NextLoad ==
    \/ \E id \in Ids, request \in UnprotectedRequests :
          store_key("p1", generate_key_pair(id, request, 0))
    \/ save_to_disk_lock("p1")
    \/ save_to_disk_write("p1")
    \/ save_to_disk_fail("p1")
    \/ \E id \in Ids, reason \in RevokeReasons : revoke_key("p1", id, reason)
    \/ load_from_disk("p1")
    \/ main("p1")
    \/ Return("p1")
    \/ Tick

SpecLoad == Init /\ [][NextLoad]_vars

\* One caller of batch_verify_signatures, with batches of every length up
\* to MaxBatch.
NextBatch ==
    \/ \E verifications \in Batches : call_batch_verify_signatures("p1", verifications)
    \/ Return("p1")

SpecBatch == Init /\ [][NextBatch]_vars

\* One worker; stores and patches whose write of the file may fail.
NextFault ==
    \/ \E id \in Ids, request \in PlainRequests :
          store_key("p1", generate_key_pair(id, request, 0))
    \/ \E id \in Ids, update \in SingleFieldUpdates : update_key("p1", id, update)
    \/ save_to_disk_lock("p1")
    \/ save_to_disk_write("p1")
    \/ save_to_disk_fail("p1")
    \/ \E id \in Ids : get_key("p1", id)
    \/ list_keys("p1")
    \/ Return("p1")

SpecFault == Init /\ [][NextFault]_vars

\* The requests for keys, with and without a password, that do not expire.
SigningKeyRequests == {r \in GenerateKeyRequests : r.expires_at = None}

\* One worker; keys with and without a password are stored and revoked,
\* documents are signed with them, signatures are verified, and the
\* envelopes of the stored keys, as they are or corrupted, are decrypted.
NextSign ==
    \/ \E id \in Ids, request \in SigningKeyRequests :
          store_key("p1", generate_key_pair(id, request, 0))
    \/ save_to_disk_lock("p1")
    \/ save_to_disk_write("p1")
    \/ \E id \in Ids, reason \in RevokeReasons : revoke_key("p1", id, reason)
    \/ \E request \in SignDocumentRequests : sign_document_handler("p1", request)
    \/ sign_document_touch("p1")
    \/ \E request \in VerifySignatureRequests : verify_signature_handler("p1", request)
    \/ \E id \in DOMAIN keys, password \in Passwords :
          /\ keys[id].salt # None
          /\ \E encrypted \in {keys[id].private_key, tampered(keys[id].private_key)} :
                decrypt("p1", encrypted, password, keys[id].salt)
    \/ Return("p1")

SpecSign == Init /\ [][NextSign]_vars

\* One worker; generated keys are stored, and callers of the library call
\* sign_document, verify_signature and decrypt_private_key with the stored
\* material and with material of their own.
NextCore ==
    \/ \E id \in Ids, request \in SigningKeyRequests :
          store_key("p1", generate_key_pair(id, request, 0))
    \/ save_to_disk_lock("p1")
    \/ save_to_disk_write("p1")
    \/ \E request \in SignDocumentRequests :
          \/ \E id \in DOMAIN keys :
                call_sign("p1", request, keys[id].private_key, keys[id].salt)
          \/ \E material \in ForeignKeyMaterial :
                call_sign("p1", request, material[1], material[2])
    \/ \E request \in VerifyArguments : call_verify_signature("p1", request)
    \/ \E material \in ForeignKeyMaterial, password \in Passwords :
          decrypt("p1", material[1], password, material[2])
    \/ Return("p1")

SpecCore == Init /\ [][NextCore]_vars

\* Two workers serve requests for one key concurrently; the write of the
\* file may fail.
NextLive ==
    \E p \in Procs :
        \/ \E request \in PlainRequests : store_key(p, generate_key_pair("k1", request, 0))
        \/ update_key(p, "k1", Rename)
        \/ save_to_disk_lock(p)
        \/ save_to_disk_write(p)
        \/ save_to_disk_fail(p)
        \/ \E reason \in RevokeReasons : revoke_key(p, "k1", reason)
        \/ update_last_used(p, "k1")
        \/ get_key(p, "k1")
        \/ Return(p)

SpecLive == Init /\ [][NextLive]_vars

\* The scheduling of the runtime: the tokio Mutex hands the lock to its
\* waiters in the order they came (a waiter is not passed over for ever), and
\* the write of the file, once started, ends, well or badly.
FairSpecLive ==
    /\ SpecLive
    /\ \A p \in Procs :
          /\ SF_vars(save_to_disk_lock(p))
          /\ WF_vars(save_to_disk_write(p) \/ save_to_disk_fail(p))

\* One worker and one key, generated with or without a password and with
\* or without an expiry: it is patched, revoked, touched and used to sign,
\* and time passes.
NextUse ==
    \/ \E request \in GenerateKeyRequests :
          store_key("p1", generate_key_pair("k1", request, 0))
    \/ \E update \in LifecycleUpdates : update_key("p1", "k1", update)
    \/ save_to_disk_lock("p1")
    \/ save_to_disk_write("p1")
    \/ \E reason \in RevokeReasons : revoke_key("p1", "k1", reason)
    \/ update_last_used("p1", "k1")
    \/ \E request \in SignDocumentRequests : sign_document_handler("p1", request)
    \/ sign_document_touch("p1")
    \/ Return("p1")
    \/ Tick

SpecUse == Init /\ [][NextUse]_vars

----------------------------------------------------------------------------
\* The properties of the registry.

Expired(key_pair, t) == key_pair.expires_at # None /\ key_pair.expires_at[1] < t

Returned(p, op) == pc[p] = "done" /\ call[p].op = op /\ ret[p] # None

Mutations == {"store", "update", "revoke", "touch"}

\* C1: once revoke(id) has returned Ok, every later get(id), with no update or
\* store of id in between, returns KeyRevoked.
C1_GetAfterRevokeIsKeyRevoked ==
    [][\A p \in Procs, id \in Ids :
          (get_key(p, id) /\ id \in revoked) => (ret'[p] = Some(KeyRevoked(id)))]_vars

\* C2: get(id) of a stored record whose expires_at is in the past returns
\* KeyExpired, whether its is_active flag is true or false.
C2_ExpiredGetIsKeyExpired ==
    [][\A p \in Procs, id \in Ids :
          (get_key(p, id) /\ id \in DOMAIN keys /\ Expired(keys[id], now))
              => (ret'[p] = Some(KeyExpired(id)))]_vars

C2_Witness ==
    \E id \in DOMAIN keys :
        /\ Returned("p1", "get") /\ call["p1"].id = id
        /\ ret["p1"] = Some(KeyExpired(id))
        /\ keys[id].is_active /\ Expired(keys[id], now)

\* C3: get(id) of a stored record whose is_active flag is false returns
\* KeyRevoked, whatever its expires_at.
C3_InactiveGetIsKeyRevoked ==
    [][\A p \in Procs, id \in Ids :
          (get_key(p, id) /\ id \in DOMAIN keys /\ ~keys[id].is_active)
              => (ret'[p] = Some(KeyRevoked(id)))]_vars

\* C4: get(id) returns KeyNotFound for an id that is not stored, else
\* KeyExpired when expires_at has passed, else KeyRevoked when is_active is
\* false, else the record; exactly one of the four.
C4_GetDecidesInOrder ==
    [][\A p \in Procs, id \in Ids :
          get_key(p, id) =>
             LET r == ret'[p][1]
                 stored == id \in DOMAIN keys
             IN /\ r.kind \in {"KeyNotFound", "KeyExpired", "KeyRevoked", "Ok"}
                /\ (r.kind = "KeyNotFound") <=> ~stored
                /\ (r.kind = "KeyExpired") <=> (stored /\ Expired(keys[id], now))
                /\ (r.kind = "KeyRevoked") <=>
                      (stored /\ ~Expired(keys[id], now) /\ ~keys[id].is_active)
                /\ (r.kind = "Ok") <=>
                      (stored /\ ~Expired(keys[id], now) /\ keys[id].is_active)
                /\ (r.kind = "Ok") => (r.value = keys[id])
                /\ (r.kind # "Ok") => (r.id = id)]_vars

C4_Witness ==
    \E id \in DOMAIN keys :
        /\ Returned("p1", "get") /\ call["p1"].id = id
        /\ ret["p1"] = Some(KeyExpired(id))
        /\ ~keys[id].is_active /\ Expired(keys[id], now)

\* C5: when store, update, revoke or touch_last_used has returned Ok and no
\* other operation is in flight, the document holds exactly the records of
\* the map.
C5_OkMutationHasWrittenTheMap ==
    \A p \in Procs :
        (/\ Returned(p, call[p].op)
         /\ call[p].op \in Mutations
         /\ ret[p][1].kind = "Ok"
         /\ \A q \in Procs \ {p} : pc[q] = "idle")
        => Records(disk) = keys

\* A step in which worker q reads or changes the map.
MapAccess(q) == pc'[q] # pc[q] /\ pc[q] # "done"

\* C6: between the in-memory change of a store or update and its own write of
\* the document, no other operation reads or changes the map.
C6_ChangeAndWriteInOneSection ==
    [][\A p \in Procs, q \in Procs :
          (p # q /\ pc[p] \in {"save", "write"}) => ~MapAccess(q)]_vars

\* C7: at most one operation has access to the map at a time, the document
\* is written only by the holder of that access, two writes never overlap,
\* and what is written is the whole map as it is at that instant.
C7_WritesAreExclusiveSnapshots ==
    /\ [](/\ Cardinality({p \in Procs : pc[p] = "write"}) <= 1
          /\ \A p \in Procs :
                (pc[p] = "write") =>
                   (lock = Some(p) /\ content[p] # None /\ Records(content[p][1]) = keys)
          /\ (lock # None) => (pc[lock[1]] = "write"))
    /\ [][(disk' # disk) =>
             (\E p \in Procs :
                 lock = Some(p) /\ pc[p] = "write" /\ Records(disk') = keys)]_vars

C7_Witness ==
    /\ pc["p1"] = "write" /\ pc["p2"] = "save"
    /\ call["p1"].id = call["p2"].id
    /\ Records(disk) # keys

\* C8: update(id, patch) of a stored id sets exactly the fields present in
\* the patch to the patch values, leaves the other fields of the record and
\* all other records as they were, and returns the record as updated.
C8_UpdateMergesThePatch ==
    [][/\ \A p \in Procs, id \in DOMAIN keys :
             (pc[p] = "idle" /\ pc'[p] = "save" /\ call'[p] = [op |-> "update", id |-> id]) =>
                \A u \in UpdateKeyRequests :
                   (keys'[id] = apply_update(keys[id], u)) =>
                      LET old == keys[id]
                          new == keys'[id]
                      IN /\ DOMAIN keys' = DOMAIN keys
                         /\ \A j \in DOMAIN keys \ {id} : keys'[j] = keys[j]
                         /\ new.name = IF u.name = None THEN old.name ELSE u.name[1]
                         /\ new.description =
                               IF u.description = None THEN old.description ELSE u.description
                         /\ new.tags = IF u.tags = None THEN old.tags ELSE u.tags[1]
                         /\ new.expires_at =
                               IF u.expires_at = None THEN old.expires_at ELSE u.expires_at
                         /\ new.is_active =
                               IF u.is_active = None THEN old.is_active ELSE u.is_active[1]
                         /\ \A f \in {"id", "public_key", "private_key", "salt", "created_at",
                                      "last_used", "key_type", "key_strength"} :
                               new[f] = old[f]
       /\ \A p \in Procs :
             (pc[p] = "write" /\ pc'[p] = "done" /\ call[p].op = "update") =>
                (ret'[p] = Some(Ok(keys[call[p].id])))]_vars

C8_Witness ==
    \E id \in DOMAIN keys :
        /\ Returned("p1", "update") /\ call["p1"].id = id
        /\ ret["p1"] = Some(Ok(keys[id]))
        /\ keys[id].tags = <<"t1">> /\ keys[id].name = "n0"
        /\ keys[id].description = None /\ keys[id].expires_at = Some(MaxTime)
        /\ DOMAIN keys = Ids

\* C9: update, revoke and touch_last_used of an id that is not stored return
\* KeyNotFound and leave the map and the document as they were; nothing is
\* created and nothing is written.
C9_UnknownIdChangesNothing ==
    [][\A p \in Procs, id \in Ids :
          (/\ id \notin DOMAIN keys
           /\ \/ \E reason \in RevokeReasons : revoke_key(p, id, reason)
              \/ update_last_used(p, id)
              \/ \E u \in UpdateKeyRequests : update_key(p, id, u))
          => (/\ ret'[p] = Some(KeyNotFound(id))
              /\ pc'[p] = "done"
              /\ keys' = keys
              /\ disk' = disk)]_vars

C9_Witness ==
    /\ Returned("p1", "touch")
    /\ ret["p1"] = Some(KeyNotFound(call["p1"].id))
    /\ call["p1"].id \notin DOMAIN keys
    /\ DOMAIN keys # {} /\ Records(disk) = keys

\* C10: revoke(id) of a stored record, whatever its state, sets
\* is_active = false and expires_at to the time of the call and changes
\* nothing else in that record or in any other record.
C10_RevokeSetsFlagAndExpiry ==
    [][\A p \in Procs, id \in Ids :
          ((\E reason \in RevokeReasons : revoke_key(p, id, reason)) /\ id \in DOMAIN keys) =>
             /\ keys'[id].is_active = FALSE
             /\ keys'[id].expires_at = Some(now)
             /\ [keys'[id] EXCEPT !.is_active = keys[id].is_active,
                                  !.expires_at = keys[id].expires_at] = keys[id]
             /\ DOMAIN keys' = DOMAIN keys
             /\ \A j \in DOMAIN keys \ {id} : keys'[j] = keys[j]]_vars

C10_Witness ==
    \E id \in DOMAIN keys :
        /\ Returned("p1", "revoke") /\ call["p1"].id = id
        /\ ret["p1"] = Some(Ok(Unit))
        /\ keys[id].expires_at = Some(MaxTime) /\ now = MaxTime
        /\ ~keys[id].is_active
        /\ \E j \in DOMAIN keys \ {id} : keys[j].is_active

\* C11: after a successful revoke(id, reason) with a reason the registry
\* state holds that reason for id: the state a revoke leaves tells its reason,
\* so a revoke with another reason would have left another state.
C11_RevokeRetainsTheReason ==
    [][\A p \in Procs, id \in DOMAIN keys :
          \A reason \in RevokeReasons \ {None} :
             \A other \in RevokeReasons \ {reason} :
                revoke_key(p, id, reason) => ~revoke_key(p, id, other)]_vars

\* C12: no operation removes a record: the set of stored ids never shrinks;
\* and list() returns exactly one entry per stored record, the revoked and
\* the expired records included, with is_active = false.
C12_NothingIsRemovedAndListIsComplete ==
    /\ [][DOMAIN keys \subseteq DOMAIN keys']_vars
    /\ [][\A p \in Procs :
             list_keys(p) =>
                LET list == ret'[p][1].value IN
                /\ Len(list) = Cardinality(DOMAIN keys)
                /\ \A id \in DOMAIN keys : \E i \in 1..Len(list) : list[i].id = id
                /\ \A i \in 1..Len(list) :
                      LET key_pair == keys[list[i].id] IN
                      (\/ list[i].id \in revoked
                       \/ ~key_pair.is_active
                       \/ Expired(key_pair, now)) => ~list[i].is_active]_vars

C12_Witness ==
    /\ Returned("p1", "list")
    /\ LET list == ret["p1"][1].value IN
       /\ Len(list) = 2
       /\ \E i, j \in 1..2 :
             /\ list[i].id \in revoked /\ ~list[i].is_active
             /\ keys[list[j].id].is_active /\ Expired(keys[list[j].id], now)
             /\ ~list[j].is_active

\* The read methods of the registry.
Reads == {"get", "list", "filter", "search", "stats", "expiring"}

\* C13: get, list, filter, search, stats and expiring_within leave the map
\* and the document as they were, whatever they return; a get that returns
\* KeyExpired or KeyRevoked changes neither is_active nor expires_at.
C13_ReadsChangeNothing ==
    [][\A p \in Procs :
          (pc[p] = "idle" /\ pc'[p] = "done" /\ call'[p].op \in Reads)
              => (keys' = keys /\ disk' = disk)]_vars

C13_Witness ==
    \E id \in DOMAIN keys \cap DOMAIN Records(disk) :
        /\ Returned("p1", "get")
        /\ ret["p1"] = Some(KeyExpired(id))
        /\ keys[id].is_active /\ Records(disk)[id].is_active
        /\ keys[id].expires_at = Some(0) /\ now = MaxTime

\* get(id) answers KeyExpired or KeyRevoked now.
Blocked(id) ==
    /\ id \in DOMAIN keys
    /\ get_key_result(keys, id, now).kind \in {"KeyExpired", "KeyRevoked"}

\* A step in which a store or an update of id changes the map.
StoreOrUpdate(id) ==
    \E p \in Procs :
        pc[p] = "idle" /\ pc'[p] = "save" /\ call'[p].op \in {"store", "update"}
        /\ call'[p].id = id

Reactivate ==
    [name |-> None, description |-> None, tags |-> None,
     expires_at |-> None, is_active |-> Some(TRUE)]

\* C17: update(id, {is_active = true, expires_at = None}) applied to a
\* revoked record reactivates it: a get(id) that follows returns the record,
\* not KeyExpired or KeyRevoked.
C17_ReactivatingUpdateMakesGetReturn ==
    [][\A p \in Procs, id \in Ids :
          (update_key(p, id, Reactivate) /\ id \in revoked)
              => (get_key_result(keys', id, now') = Ok(keys'[id]))]_vars

\* C14: persist/reload round trip: once records have been stored, a fresh
\* registry that loads the document holds and lists the same records, each
\* with the same id, public key, private key material, salt and other fields.
C14_ReloadGivesTheStoredRecords ==
    [][\A p \in Procs :
          main(p) =>
             /\ ret'[p] = Some(Ok(Unit))
             /\ DOMAIN keys' = DOMAIN keys
             /\ \A id \in DOMAIN keys :
                   /\ keys'[id].public_key = keys[id].public_key
                   /\ keys'[id].private_key = keys[id].private_key
                   /\ keys'[id].salt = keys[id].salt
                   /\ keys'[id] = keys[id]
             /\ \A order \in Orders(DOMAIN keys) :
                   list_keys_result(keys', now', order) = list_keys_result(keys, now, order)]_vars

C14_Witness ==
    /\ Returned("p1", "load")
    /\ ret["p1"] = Some(Ok(Unit))
    /\ DOMAIN keys = Ids
    /\ keys["k1"].salt # None /\ keys["k1"].expires_at = Some(MaxTime)
    /\ keys["k2"].salt = None /\ keys["k2"].expires_at = None

\* C15: when the write of the document fails during store or update, the
\* operation returns StorageError, the change stays in the map (a get that
\* follows returns the new or updated record) and the document keeps its
\* previous content.
C15_FailedWriteKeepsMapAndDocument ==
    [][\A p \in Procs :
          (pc[p] = "write" /\ pc'[p] = "done" /\ ret'[p][1].kind # "Ok")
          => (/\ ret'[p] = Some(StorageError)
              /\ keys' = keys
              /\ call[p].id \in DOMAIN keys'
              /\ get_key_result(keys', call[p].id, now') = Ok(keys'[call[p].id])
              /\ (call[p].op = "update") =>
                    (keys'[call[p].id] = updated_key_pair[p][1])
              /\ disk' = disk)]_vars

\* A step in which worker p runs the sign_document handler up to the
\* signing, or calls decrypt_private_key.
SignStep(p) == pc[p] = "idle" /\ pc'[p] # "idle" /\ call'[p].op = "sign"
DecryptStep(p) == pc[p] = "idle" /\ pc'[p] # "idle" /\ call'[p].op = "decrypt"

\* The password a record was generated with: None for a raw key.
generation_password(key_pair) ==
    IF key_pair.salt = None THEN None
    ELSE Some(key_pair.private_key.base64.sealed.key.password)

\* The request names its document by content, or by a document_hash other
\* than a text of 64 characters that is not hexadecimal.
NamesDocument(request) ==
    \/ request.document_content # None
    \/ /\ request.document_hash # None
       /\ ~(request.document_hash[1].chars = 64 /\ request.document_hash[1].hex = None)

\* C18: sign/verify round trip: for a generated key, signed with the password
\* it was generated with or with none if it has none, and every document hash
\* h, verify(public_key, h, sign(record, h)) is true; and so it is when the
\* document is given as content on both sides.
C18_SignThenVerifyIsTrue ==
    [][\A p \in Procs :
          SignStep(p) =>
          \A request \in SignDocumentRequests :
          LET got == get_key_result(keys, request.key_id, now) IN
          (/\ sign_document_handler(p, request)
           /\ got.kind = "Ok"
           /\ request.password = generation_password(got.value)
           /\ NamesDocument(request))
          => LET response == ret'[p][1].value IN
             /\ response.success
             /\ response.signature # None
             /\ response.signature[1] = signature_for(request, got.value).value
             /\ verify_signature([public_key       |-> got.value.public_key,
                                  document_hash    |-> response.document_hash,
                                  signature        |-> response.signature[1],
                                  document_content |-> None]) = Ok(TRUE)
             /\ verify_signature_response(
                    [public_key       |-> got.value.public_key,
                     document_hash    |-> request.document_hash,
                     signature        |-> response.signature[1],
                     document_content |-> request.document_content], now').is_valid]_vars

C18_Witness ==
    /\ pc["p1"] = "touch"
    /\ call["p1"].op = "sign"
    /\ LET key_pair == keys[call["p1"].id]
           response == ret["p1"][1].value
       IN /\ key_pair.salt # None
          /\ response.success
          /\ response.document_hash =
                Some(create_document_hash([chars |-> 64, hex |-> None,
                                           text |-> "a line of 64 characters"]))
          /\ verify_signature([public_key       |-> key_pair.public_key,
                               document_hash    |-> response.document_hash,
                               signature        |-> response.signature[1],
                               document_content |-> None]) = Ok(TRUE)

\* C19: signing or decrypting a password-protected key with a password other
\* than the one it was generated with returns PrivateKeyDecryptionFailed: no
\* plaintext and no signature is produced, and the stored records, last_used
\* included, are unchanged.
C19_WrongPasswordFailsAndChangesNothing ==
    [][/\ \A p \in Procs :
             SignStep(p) =>
             \A request \in SignDocumentRequests :
             LET got == get_key_result(keys, request.key_id, now) IN
             (/\ sign_document_handler(p, request)
              /\ got.kind = "Ok"
              /\ got.value.salt # None
              /\ request.password # None
              /\ request.password # generation_password(got.value))
             => /\ sign_document(request, got.value.private_key, got.value.salt)
                      = PrivateKeyDecryptionFailed("Invalid password or corrupted data")
                /\ ret'[p][1].value.success = FALSE
                /\ ret'[p][1].value.signature = None
                /\ pc'[p] = "done"
                /\ keys' = keys
       /\ \A p \in Procs :
             DecryptStep(p) =>
             \A id \in DOMAIN keys, password \in Passwords :
             (/\ keys[id].salt # None
              /\ Some(password) # generation_password(keys[id])
              /\ decrypt(p, keys[id].private_key, password, keys[id].salt))
             => /\ ret'[p] = Some(PrivateKeyDecryptionFailed("Invalid password or corrupted data"))
                /\ keys' = keys]_vars

C19_Witness ==
    /\ Returned("p1", "sign")
    /\ LET key_pair == keys[call["p1"].id]
           response == ret["p1"][1].value
       IN /\ response.message = "Failed to sign document"
          /\ response.signature = None
          /\ key_pair.salt # None /\ key_pair.is_active
          /\ generation_password(key_pair) = Some("pw")
          /\ key_pair.last_used = None
          /\ Records(disk) = keys

\* C20: a decryption that fails does not tell its cause: for the same
\* envelope length and salt, a wrong password and a corrupted ciphertext give
\* the same PrivateKeyDecryptionFailed with the same message.
C20_FailureDoesNotTellItsCause ==
    [][\A p \in Procs :
          DecryptStep(p) =>
          \A id \in DOMAIN keys, password \in Passwords :
          (keys[id].salt # None) =>
             LET key_pair == keys[id]
                 right == generation_password(key_pair)[1]
                 failure == PrivateKeyDecryptionFailed("Invalid password or corrupted data")
             IN /\ (/\ password # right
                    /\ decrypt(p, key_pair.private_key, password, key_pair.salt))
                   => (/\ ret'[p] = Some(failure)
                       /\ ret'[p] = Some(decrypt_private_key(tampered(key_pair.private_key),
                                                             right, key_pair.salt)))
                /\ decrypt(p, tampered(key_pair.private_key), password, key_pair.salt)
                   => (/\ ret'[p] = Some(failure)
                       /\ \A wrong \in Passwords \ {right} :
                             ret'[p] = Some(decrypt_private_key(key_pair.private_key,
                                                                wrong, key_pair.salt)))]_vars

C20_Witness ==
    /\ Returned("p1", "decrypt")
    /\ ret["p1"] = Some(PrivateKeyDecryptionFailed("Invalid password or corrupted data"))
    /\ \E id \in DOMAIN keys :
          /\ keys[id].salt # None
          /\ tampered(keys[id].private_key).base64.len = keys[id].private_key.base64.len
          /\ decrypt_private_key(keys[id].private_key, "pw", keys[id].salt).kind = "Ok"

\* A step in which worker p calls verify_signature, or one of the signing
\* functions, as a function of the library.
VerifyCall(p) == pc[p] = "idle" /\ pc'[p] # "idle" /\ call'[p].op = "verify_signature"
SignCall(p) == pc[p] = "idle" /\ pc'[p] # "idle" /\ call'[p].op = "sign_document"

\* C21: verify returns Ok(false), never an error, for every input whose
\* public key decodes to 32 bytes and whose signature decodes to 64 bytes and
\* does not match the document identity; the only error verify returns is
\* InvalidKeyFormat, and only for a length or encoding mismatch of the public
\* key or of the signature.
C21_VerifyErrsOnlyOnKeyOrSignatureFormat ==
    [][\A p \in Procs :
          VerifyCall(p) =>
          \A request \in VerifyArguments :
          call_verify_signature(p, request) =>
             LET r == ret'[p][1]
                 key_decodes == /\ IsBase64(request.public_key)
                                /\ request.public_key.base64.len = 32
                 signature_decodes == /\ IsBase64(request.signature)
                                      /\ request.signature.base64.len = 64
             IN /\ (key_decodes /\ signature_decodes /\ r # Ok(TRUE)) => (r = Ok(FALSE))
                /\ (r.kind # "Ok") =>
                      (r.kind = "InvalidKeyFormat" /\ ~(key_decodes /\ signature_decodes))]_vars

\* C22: sign on a record whose decoded private key material is longer than 64
\* bytes returns InvalidRequest when no password is supplied, and sign with
\* neither a document hash nor a document content returns InvalidRequest; in
\* both cases no signature is produced.
C22_SignWithoutPasswordOrDocumentIsInvalidRequest ==
    [][\A p \in Procs :
          SignCall(p) =>
          \A request \in SignDocumentRequests, id \in DOMAIN keys :
          call_sign(p, request, keys[id].private_key, keys[id].salt) =>
             LET r == ret'[p][1] IN
             /\ (keys[id].private_key.base64.len > 64 /\ request.password = None)
                   => (r.kind = "InvalidRequest")
             /\ (request.document_hash = None /\ request.document_content = None)
                   => (r.kind = "InvalidRequest")]_vars

\* C22, amended: sign on a record whose decoded private key material is
\* longer than 64 bytes returns InvalidRequest when no password is supplied;
\* sign with neither a document hash nor a document content returns
\* InvalidRequest when the record is not encrypted or the password is the one
\* it was generated with, and PrivateKeyDecryptionFailed when the record is
\* encrypted and the password is another one; in all these cases no signature
\* is produced.
C22_SignChecksPasswordBeforeDocument ==
    [][\A p \in Procs :
          SignCall(p) =>
          \A request \in SignDocumentRequests, id \in DOMAIN keys :
          call_sign(p, request, keys[id].private_key, keys[id].salt) =>
             LET r == ret'[p][1]
                 encrypted == keys[id].private_key.base64.len > 64
                 no_document == request.document_hash = None /\ request.document_content = None
             IN /\ (encrypted /\ request.password = None)
                      => (r = InvalidRequest("Password required for encrypted private key"))
                /\ (no_document
                      /\ (~encrypted \/ request.password = generation_password(keys[id])))
                      => (r = InvalidRequest("Document hash or content must be provided"))
                /\ (no_document /\ encrypted /\ request.password # None
                      /\ request.password # generation_password(keys[id]))
                      => (r.kind = "PrivateKeyDecryptionFailed")
                /\ ((encrypted /\ request.password = None) \/ no_document)
                      => (r.kind # "Ok")]_vars

C22_Witness ==
    /\ Returned("p1", "sign_document")
    /\ ret["p1"] = Some(InvalidRequest("Document hash or content must be provided"))
    /\ DOMAIN keys # {}
    /\ \A id \in DOMAIN keys : keys[id].salt # None

\* The variants of KeyManagementError.
KeyManagementError ==
    {"KeyNotFound", "InvalidKeyFormat", "SignatureVerificationFailed",
     "PrivateKeyDecryptionFailed", "StorageError", "InvalidRequest", "InternalError",
     "KeyExpired", "KeyRevoked", "InsufficientPermissions", "RateLimitExceeded"}

\* C23: every core operation returns a typed outcome, Ok or a
\* KeyManagementError, for every argument value, private key material of any
\* decoded length and decrypted plaintext of any length included; none aborts
\* (panics).
C23_EveryOutcomeIsTyped ==
    \A p \in Procs :
        (ret[p] # None) => (ret[p][1].kind \in {"Ok"} \cup KeyManagementError)

\* C24: under fair scheduling every registry operation invoked concurrently
\* with others returns a result or a terminal error: a store or an update
\* that has changed the map gets the lock for its save and returns, the lock
\* is always released again, an operation of one locked section can run
\* whenever the lock is free, and no operation goes back to a step it has
\* taken (nothing is retried).
C24_EveryOperationReturns ==
    /\ \A p \in Procs : (pc[p] \in {"save", "write"}) ~> (pc[p] = "done" /\ ret[p] # None)
    /\ (lock # None) ~> (lock = None)
    /\ [](\A p \in Procs :
             (pc[p] = "idle" /\ lock = None) =>
                /\ ENABLED get_key(p, "k1")
                /\ ENABLED update_last_used(p, "k1")
                /\ ENABLED update_key(p, "k1", Rename)
                /\ ENABLED (\E reason \in RevokeReasons : revoke_key(p, "k1", reason)))
    /\ [][\A p \in Procs :
             /\ (pc[p] = "save") => (pc'[p] \in {"save", "write"})
             /\ (pc[p] = "write") => (pc'[p] \in {"write", "done"})
             /\ (pc[p] = "done") => (pc'[p] \in {"done", "idle"})]_vars

C24_Witness ==
    /\ pc["p1"] = "save" /\ call["p1"].op = "update"
    /\ pc["p2"] = "write" /\ call["p2"].op = "store"
    /\ lock = Some("p2")

\* The three marks of an encrypted record agree, and a record that is not
\* encrypted holds exactly 64 bytes of key material.
Coherent(key_pair) ==
    /\ (key_pair.salt # None) <=> (key_pair.key_type = "Ed25519Encrypted")
    /\ (key_pair.salt # None) <=> (key_pair.private_key.base64.len > 64)
    /\ (key_pair.salt = None) =>
          (key_pair.private_key.base64.len = 64 /\ key_pair.key_type = "Ed25519")

\* C25: for every record produced by generate, and for every record in the
\* registry after any sequence of store, update, revoke and touch_last_used:
\* salt is present iff a password was supplied, iff key_type is
\* Ed25519Encrypted, iff the decoded private key material is longer than 64
\* bytes; without a password the material is exactly 64 bytes, key_type is
\* Ed25519 and there is no salt.  A new record has is_active = true and no
\* last_used.
C25_SaltTypeAndLengthAgree ==
    /\ [](\A id \in DOMAIN keys : Coherent(keys[id]))
    /\ [][\A p \in Procs :
             (pc[p] = "idle" /\ pc'[p] = "save" /\ call'[p].op = "store") =>
             \A request \in GenerateKeyRequests :
             store_key(p, generate_key_pair(call'[p].id, request, 0)) =>
                LET key_pair == keys'[call'[p].id] IN
                /\ (key_pair.salt # None) <=> (request.password # None)
                /\ Coherent(key_pair)
                /\ key_pair.is_active
                /\ key_pair.last_used = None]_vars
    /\ [][\A id \in DOMAIN keys :
             (~\E p \in Procs : pc[p] = "idle" /\ pc'[p] = "save" /\ call'[p].op = "store")
             => (/\ keys'[id].salt = keys[id].salt
                 /\ keys'[id].key_type = keys[id].key_type
                 /\ keys'[id].private_key = keys[id].private_key)]_vars

C25_Witness ==
    /\ "k1" \in DOMAIN keys
    /\ keys["k1"].salt # None /\ keys["k1"].key_type = "Ed25519Encrypted"
    /\ keys["k1"].private_key.base64.len = 12 + 64 + 16
    /\ ~keys["k1"].is_active /\ keys["k1"].last_used = Some(MaxTime)
    /\ keys["k1"].expires_at = Some(0)
    /\ Returned("p1", "touch")

\* C26: touch_last_used(id) on any stored record sets last_used to the time of
\* the call and returns Ok whatever the record's lifecycle state (active,
\* expired or revoked), and changes no other field.
C26_TouchSetsLastUsedOnly ==
    [][\A p \in Procs, id \in Ids :
          (update_last_used(p, id) /\ id \in DOMAIN keys) =>
             /\ ret'[p] = Some(Ok(Unit))
             /\ keys'[id].last_used = Some(now)
             /\ [keys'[id] EXCEPT !.last_used = keys[id].last_used] = keys[id]
             /\ DOMAIN keys' = DOMAIN keys
             /\ \A j \in DOMAIN keys \ {id} : keys'[j] = keys[j]
             /\ disk' = disk]_vars

C26_Witness ==
    /\ Returned("p1", "touch")
    /\ ret["p1"] = Some(Ok(Unit))
    /\ now = MaxTime
    /\ LET key_pair == keys[call["p1"].id] IN
       /\ key_pair.is_active /\ key_pair.expires_at = Some(0)
       /\ key_pair.last_used = Some(MaxTime)
       /\ key_pair.salt # None
       /\ get_key_result(keys, key_pair.id, now) = KeyExpired(key_pair.id)

\* C27: last_used is updated on every successful signing and by nothing else
\* in the sign flow: a sign request that produces a signature goes on to set
\* last_used of its key to the time of that step, and a sign request that
\* fails (key not found, expired or revoked, missing or wrong password,
\* missing document identity) ends there and leaves every record unchanged.
C27_LastUsedFollowsSuccessfulSigning ==
    /\ [][\A p \in Procs :
             SignStep(p) =>
             \A request \in SignDocumentRequests :
             sign_document_handler(p, request) =>
                LET got == get_key_result(keys, request.key_id, now)
                    response == ret'[p][1].value
                    signs == /\ got.kind = "Ok"
                             /\ (got.value.salt # None) =>
                                   (request.password = generation_password(got.value))
                             /\ NamesDocument(request)
                IN /\ keys' = keys
                   /\ response.success <=> signs
                   /\ response.success <=> (response.signature # None)
                   /\ pc'[p] = IF signs THEN "touch" ELSE "done"]_vars
    /\ [][\A p \in Procs :
             (pc[p] = "touch" /\ pc'[p] # "touch") =>
                LET id == call[p].id IN
                /\ ret[p][1].value.success
                /\ id \in DOMAIN keys
                /\ keys'[id].last_used = Some(now)
                /\ [keys'[id] EXCEPT !.last_used = keys[id].last_used] = keys[id]
                /\ \A j \in DOMAIN keys \ {id} : keys'[j] = keys[j]]_vars

C27_Witness ==
    /\ Returned("p1", "sign")
    /\ ret["p1"][1].value.success
    /\ ret["p1"][1].value.signing_time = Some(0)
    /\ now = MaxTime
    /\ LET key_pair == keys[call["p1"].id] IN
       /\ key_pair.salt # None
       /\ key_pair.last_used = Some(MaxTime)

\* C28: list_keys reports for every record is_active = stored is_active and
\* (expires_at absent or strictly later than the time of the call), so a
\* record whose expires_at equals the time of the call is reported as not
\* active; and get_key returns a record exactly when list_keys reports it
\* active at the same instant.
C28_ListReportsStrictlyLaterExpiryAsActive ==
    [][\A p \in Procs :
          list_keys(p) =>
             LET list == ret'[p][1].value IN
             \A i \in 1..Len(list) :
                LET key_pair == keys[list[i].id] IN
                /\ list[i].is_active =
                      (/\ key_pair.is_active
                       /\ \/ key_pair.expires_at = None
                          \/ key_pair.expires_at[1] > now)
                /\ list[i].is_active =
                      (get_key_result(keys, list[i].id, now).kind = "Ok")]_vars

\* C29: get_key_stats returns (total, active, expired, revoked): the number
\* of stored records, of effectively active records, of records whose
\* expires_at has passed, and of records whose stored is_active is false; a
\* record that only expired is counted as expired and not as revoked.
C29_StatsCountRevokedByStoredFlag ==
    [][\A p \in Procs :
          get_key_stats(p) =>
             LET stats == ret'[p][1].value
                 passed(id) == /\ keys[id].expires_at # None
                               /\ now > keys[id].expires_at[1]
             IN stats =
                   <<Cardinality(DOMAIN keys),
                     Cardinality({id \in DOMAIN keys : keys[id].is_active /\ ~passed(id)}),
                     Cardinality({id \in DOMAIN keys : passed(id)}),
                     Cardinality({id \in DOMAIN keys : ~keys[id].is_active})>>]_vars

\* C30: a revocation survives a restart: once revoke_key has returned Ok for
\* a record and no later mutation ran, the registry that a new process loads
\* from the file answers get_key for it with KeyExpired or KeyRevoked and
\* lists it with is_active = false.
C30_RevocationSurvivesRestart ==
    [][\A p \in Procs :
          (main(p) /\ ret'[p] = Some(Ok(Unit))) =>
             \A id \in revoked :
                (id \in DOMAIN keys /\ ~keys[id].is_active) =>
                   /\ get_key_result(keys', id, now').kind \in {"KeyExpired", "KeyRevoked"}
                   /\ \A order \in Orders(DOMAIN keys') :
                         \A i \in 1..Len(order) :
                            (order[i] = id) =>
                               ~list_keys_result(keys', now', order)[i].is_active]_vars

\* Every worker is between two requests or has its result.
Quiescent == \A p \in Procs : pc[p] \in {"idle", "done"}

\* C31: under any interleaving of concurrent store_key and update_key calls
\* whose writes succeed, once all of them have returned the file holds
\* exactly the records of the map: every write puts the map of that moment
\* into the file, and a change of the map not yet in the file always has its
\* own save still to come.
C31_DocumentHoldsTheMapOnceAllReturned ==
    /\ [](Quiescent => (Records(disk) = keys))
    /\ []((Records(disk) # keys) => (\E p \in Procs : pc[p] \in {"save", "write"}))
    /\ [][\A p \in Procs : save_to_disk_write(p) => (Records(disk') = keys')]_vars

C31_Witness ==
    /\ pc["p1"] = "done" /\ pc["p2"] = "done"
    /\ call["p1"] = [op |-> "update", id |-> "k1"]
    /\ call["p2"] = [op |-> "store", id |-> "k1"]
    /\ ret["p1"][1].kind = "Ok" /\ ret["p2"][1].kind = "Ok"
    /\ ret["p1"][1].value # keys["k1"]
    /\ Records(disk) = keys

\* The name patch, the tags patch are in the record.
Renamed(key_pair) == key_pair.name = "n1"
Tagged(key_pair) == key_pair.tags = <<"t1">>

\* C32: no lost update: when two update_key calls on the same id with
\* patches on disjoint fields run concurrently, under every interleaving a
\* patch that was applied stays applied, each call returns a record with its
\* patch, and once both have returned the record has both patches in the map
\* and in the file.
C32_NoLostUpdate ==
    /\ [][\A id \in DOMAIN keys :
             /\ Renamed(keys[id]) => Renamed(keys'[id])
             /\ Tagged(keys[id]) => Tagged(keys'[id])]_vars
    /\ [](\A p \in Procs :
             (Returned(p, "update") /\ ret[p][1].kind = "Ok") =>
                LET key_pair == keys[call[p].id] IN
                IF p = "p1"
                THEN Renamed(ret[p][1].value) /\ Renamed(key_pair)
                ELSE Tagged(ret[p][1].value) /\ Tagged(key_pair))
    /\ []((/\ Returned("p1", "update") /\ ret["p1"][1].kind = "Ok"
           /\ Returned("p2", "update") /\ ret["p2"][1].kind = "Ok") =>
             /\ Renamed(keys["k1"]) /\ Tagged(keys["k1"])
             /\ Records(disk) = keys)

C32_Witness ==
    /\ Returned("p1", "update") /\ ret["p1"][1].kind = "Ok"
    /\ Returned("p2", "update") /\ ret["p2"][1].kind = "Ok"
    /\ ~Tagged(ret["p1"][1].value)
    /\ Renamed(ret["p2"][1].value)
    /\ Renamed(keys["k1"]) /\ Tagged(keys["k1"])
    /\ Records(disk) = keys

\* C33: under any interleaving of sign and revoke requests, a sign request
\* whose get_key step runs after revoke_key has returned for its key, with
\* no update or store of that key in between, produces no signature and
\* changes no record; a signing in progress on a revoked key became so only
\* by a revoke_key of another worker after its get_key step.
C33_NoSignatureAfterRevoke ==
    /\ [][\A p \in Procs :
             (SignStep(p) /\ call'[p].id \in revoked) =>
                LET response == ret'[p][1].value IN
                /\ ~response.success
                /\ response.signature = None
                /\ pc'[p] = "done"
                /\ keys' = keys]_vars
    /\ [][\A p \in Procs :
             (/\ pc'[p] = "touch" /\ call'[p].id \in revoked'
              /\ ~(pc[p] = "touch" /\ call[p].id \in revoked)) =>
                /\ pc[p] = "touch"
                /\ \E q \in Procs \ {p} :
                      /\ pc[q] = "idle" /\ pc'[q] = "done"
                      /\ call'[q] = [op |-> "revoke", id |-> call[p].id]
                      /\ ret'[q] = Some(Ok(Unit))]_vars

C33_Witness ==
    /\ Returned("p1", "revoke") /\ ret["p1"][1] = Ok(Unit)
    /\ Returned("p2", "sign") /\ call["p2"].id = "k1"
    /\ ~ret["p2"][1].value.success
    /\ "k1" \in revoked
    /\ keys["k1"].salt # None
    /\ keys["k1"].last_used = None
    /\ keys["k1"].expires_at = Some(now)

\* C34: the revoke_key handler, for an id that is stored, answers with the
\* success response: success = true, the info of the revoked key and a
\* revocation time; it answers with an error only when the id is unknown.
C34_RevokeHandlerAnswersSuccessForStoredId ==
    /\ [][\A p \in Procs :
             (pc[p] = "info" /\ pc'[p] = "done") =>
                LET answer == ret'[p][1] IN
                /\ answer.kind = "Ok"
                /\ answer.value.success
                /\ answer.value.key_info # None
                /\ answer.value.key_info[1].id = call[p].id
                /\ answer.value.revocation_time # None]_vars
    /\ [][\A p \in Procs :
             (/\ pc[p] = "idle" /\ pc'[p] = "done"
              /\ call'[p].op = "revoke_handler") =>
                /\ call'[p].id \notin DOMAIN keys
                /\ ret'[p] = Some(StatusCode(NOT_FOUND))]_vars

\* The fields of a record fixed at its generation.
Identity(key_pair) ==
    [id           |-> key_pair.id,
     public_key   |-> key_pair.public_key,
     private_key  |-> key_pair.private_key,
     salt         |-> key_pair.salt,
     created_at   |-> key_pair.created_at,
     key_type     |-> key_pair.key_type,
     key_strength |-> key_pair.key_strength]

\* C35: update_key, revoke_key, update_last_used and every read method leave
\* id, public_key, private key material, salt, created_at, key_type and
\* key_strength of every stored record unchanged; these fields of a stored id
\* change only when store_key or load_from_disk inserts a record with that id.
C35_IdentityChangesOnlyByStoreOrLoad ==
    /\ [][\A p \in Procs :
             (/\ pc[p] = "idle" /\ pc'[p] = "done"
              /\ call'[p].op \in {"update", "revoke", "touch"} \cup Reads) =>
                /\ DOMAIN keys' = DOMAIN keys
                /\ \A id \in DOMAIN keys : Identity(keys'[id]) = Identity(keys[id])]_vars
    /\ [][\A id \in DOMAIN keys :
             (id \notin DOMAIN keys' \/ Identity(keys'[id]) # Identity(keys[id])) =>
                \E p \in Procs :
                   \/ pc[p] = "idle" /\ call'[p] = [op |-> "store", id |-> id]
                   \/ call'[p] = [op |-> "load"]]_vars

C35_Witness ==
    /\ Returned("p1", "revoke") /\ ret["p1"][1] = Ok(Unit)
    /\ keys["k1"].name = "n1"
    /\ keys["k1"].last_used = Some(MaxTime)
    /\ ~keys["k1"].is_active
    /\ \E request \in GenerateKeyRequests :
          /\ request.password = Some("pw")
          /\ Identity(keys["k1"]) = Identity(generate_key_pair("k1", request, 0))
    /\ Records(disk) # keys

\* The step of store_key that inserts into the map.
StoreStep(p) == pc[p] = "idle" /\ pc'[p] = "save" /\ call'[p].op = "store"

\* C36: store_key with an id that is already stored replaces the whole
\* stored record by the new one, lifecycle fields included, and leaves the
\* number of records unchanged; with a new id it adds exactly one record; in
\* both cases all other records are unchanged, and store_key returns Ok.
C36_StoreReplacesTheWholeRecord ==
    /\ [][\A p \in Procs :
             StoreStep(p) =>
                LET id == call'[p].id IN
                /\ \E request \in GenerateKeyRequests :
                      keys'[id] = generate_key_pair(id, request, 0)
                /\ keys'[id].is_active
                /\ keys'[id].last_used = None
                /\ DOMAIN keys' = DOMAIN keys \cup {id}
                /\ Cardinality(DOMAIN keys') =
                      IF id \in DOMAIN keys THEN Cardinality(DOMAIN keys)
                      ELSE Cardinality(DOMAIN keys) + 1
                /\ \A other \in DOMAIN keys \ {id} : keys'[other] = keys[other]]_vars
    /\ [](\A p \in Procs : Returned(p, "store") => (ret[p] = Some(Ok(Unit))))

C36_Witness ==
    /\ pc["p1"] = "save"
    /\ call["p1"] = [op |-> "store", id |-> "k1"]
    /\ DOMAIN Records(disk) = Ids
    /\ ~Records(disk)["k1"].is_active
    /\ Records(disk)["k1"].salt = None
    /\ keys["k1"].salt # None
    /\ keys["k1"].expires_at = None
    /\ keys["k2"] = Records(disk)["k2"]

\* The ids of a sequence of records.
IdsOf(key_pairs) == {key_pairs[i].id : i \in 1..Len(key_pairs)}

\* C37: load_from_disk inserts every record of the file into the map
\* unchanged, whatever its lifecycle state (the stored is_active and
\* expires_at of expired and revoked records kept as written); a missing or
\* empty file leaves the registry unchanged and returns Ok; records already
\* in the map whose ids are not in the file are kept; and load_from_disk
\* never writes the file.
C37_LoadInsertsTheDocumentVerbatim ==
    [][\A p \in Procs :
          load_from_disk(p) =>
             /\ disk' = disk
             /\ (disk \in {NoFile, BlankText}) =>
                   (keys' = keys /\ ret'[p] = Some(Ok(Unit)))
             /\ (disk.file = "json") =>
                   LET key_pairs == from_str(disk) IN
                   /\ ret'[p] = Some(Ok(Unit))
                   /\ DOMAIN keys' = DOMAIN keys \cup IdsOf(key_pairs)
                   /\ \A i \in 1..Len(key_pairs) :
                         keys'[key_pairs[i].id] = key_pairs[i]
                   /\ \A id \in DOMAIN keys \ IdsOf(key_pairs) :
                         keys'[id] = keys[id]]_vars

C37_Witness ==
    /\ Returned("p1", "load") /\ ret["p1"] = Some(Ok(Unit))
    /\ disk # NoFile /\ disk.file = "json"
    /\ IdsOf(from_str(disk)) = {"k1"}
    /\ DOMAIN keys = Ids
    /\ keys["k1"].is_active
    /\ keys["k1"].expires_at = Some(0)
    /\ now = MaxTime
    /\ "k2" \in revoked

\* The least number of a non-empty set of numbers.
Min(S) == CHOOSE i \in S : \A j \in S : i <= j

\* C38: batch_verify_signatures applies verify_signature to the items in
\* index order: when no item has a structural error it returns one boolean
\* per index, equal to verify_signature of that item; otherwise it returns
\* the error of the lowest-index item with a structural error, no per-item
\* results, and does not verify the items after it.
C38_BatchFailsFastInIndexOrder ==
    [][\A p \in Procs :
          (pc[p] = "idle" /\ pc'[p] = "done"
           /\ call'[p].op = "batch_verify_signatures") =>
             LET verifications == call'[p].verifications
                 r == ret'[p][1]
                 refused == {i \in 1..Len(verifications) :
                                verify_signature(verifications[i]).kind # "Ok"}
             IN IF refused = {}
                THEN /\ r.kind = "Ok"
                     /\ DOMAIN r.value = 0..(Len(verifications) - 1)
                     /\ \A i \in 1..Len(verifications) :
                           r.value[i - 1] = verify_signature(verifications[i]).value
                     /\ call'[p].verified = Len(verifications)
                ELSE /\ r = verify_signature(verifications[Min(refused)])
                     /\ r.kind \in KeyManagementError
                     /\ call'[p].verified = Min(refused)]_vars

C38_Witness ==
    /\ Returned("p1", "batch_verify_signatures")
    /\ LET verifications == call["p1"].verifications IN
       /\ Len(verifications) = MaxBatch
       /\ verify_signature(verifications[1]) = Ok(TRUE)
       /\ verify_signature(verifications[2]).kind = "InvalidRequest"
       /\ verify_signature(verifications[3]).kind = "InvalidKeyFormat"
       /\ ret["p1"][1].kind = "InvalidRequest"
       /\ call["p1"].verified = 2

\* C39: decrypt_private_key called without a salt returns InvalidRequest,
\* for every envelope and every password; no key is derived and nothing is
\* decrypted.
C39_DecryptWithoutSaltIsInvalidRequest ==
    [][\A p \in Procs :
          DecryptStep(p) =>
          \A material \in ForeignKeyMaterial, password \in Passwords :
             (material[2] = None /\ decrypt(p, material[1], password, material[2])) =>
                ret'[p][1].kind = "InvalidRequest"]_vars

====
